---- MODULE Spec2Model ----
(***************************************************************************)
(* The agent response loop of the Slack assistant template: one turn of    *)
(* the `message` (assistant thread) or `app_mention` handler, the          *)
(* recursive callLlm that streams an LLM response to the Slack chat        *)
(* stream and performs the roll_dice tool calls, and the rollDice tool.    *)
(*                                                                         *)
(* An action is one step of the handler between two awaited operations.    *)
(* The backend (openai.responses.create and the events of its stream),     *)
(* the Slack client (setStatus, streamer.append, streamer.stop, say) and   *)
(* Math.random are the environment: their outcomes are chosen with \E.     *)
(***************************************************************************)
EXTENDS Integers, Sequences, FiniteSets, TLC

\* Total number of stream events the backend delivers during one turn.
MaxEvents == 3

\* the stream events two interleaved turns consume together
MaxTwoEvents == 2

VARIABLES
  pc,          \* position of the handler / of callLlm
  handler,     \* which listener runs the turn: "message" or "app_mention"
  message,     \* the incoming event payload
  status,      \* calls made to setStatus
  prompts,     \* the transcript array shared by every callLlm frame
  opened,      \* calls made to openai.responses.create: the input passed, and whether it opened
  streamOpen,  \* the response of the current cycle has events left to consume
  toolCalls,   \* the toolCalls list of the current callLlm frame
  execIdx,     \* position of `for (const call of toolCalls)`
  events,      \* history: the stream events consumed, each with its cycle
  executed,    \* history: the calls made to rollDice, each with its cycle
  sink,        \* history: the calls made to streamer.append / streamer.stop
  thrown,      \* the error that left callLlm or a handler operation, "none" when none
  logged,      \* calls made to logger.error
  said,        \* calls made to say
  cancelled,   \* the surrounding request was cancelled or timed out
  parked,      \* the locals of the other turn while this one runs
  roll,        \* a direct call of rollDice: its arguments and its outcome
  ext,         \* a call of extractThreadInfo (app.js): its payload and its outcome
  oauth,       \* a run of the message listener of app-oauth.js
  summ,        \* a run of userMessage of part_000, with the summarize path
  store,       \* tempDB, the installation store of app-oauth.js, and its calls
  fb,          \* a run of handle_feedback
  started      \* a run of assistantThreadStarted

\* what belongs to one invocation of a handler: its locals and its histories
turnVars == <<pc, handler, message, status, prompts, opened, streamOpen, toolCalls,
              execIdx, events, executed, sink, thrown, logged, said>>

\* what no statement of the handlers or of callLlm reads or writes
outside == <<cancelled, parked, roll, ext, oauth, summ, store, fb, started>>

\* the other listeners and helpers of the repository, each with its own state
apps == <<ext, oauth, summ, store, fb, started>>

vars == <<turnVars, outside>>

----------------------------------------------------------------------------
(* JavaScript values of the tool arguments.  A number is tagged so that a   *)
(* count beyond the largest array length (2^32 - 1), which is beyond the    *)
(* integers of the model checker, can be told from the small ones.          *)

Undefined == [t |-> "undefined", n |-> 0]
Num(n) == [t |-> "number", n |-> n]
\* the number 4294967296 = 2^32
Huge == [t |-> "huge", n |-> 0]

\* v < k for a small integer k
Less(v, k) == v.t = "number" /\ v.n < k

\* `${v}` in a template literal
Show(v) ==
  IF v.t = "number" THEN ToString(v.n)
  ELSE IF v.t = "huge" THEN "4294967296"
  ELSE "undefined"

RECURSIVE Sum(_)
Sum(s) == IF s = <<>> THEN 0 ELSE Head(s) + Sum(Tail(s))

----------------------------------------------------------------------------
(* rollDice, src/agent/tools/dice.js:9-34                                   *)

\* destructuring default: `{ sides = 6, count = 1 } = {}`
Default(v, d) == IF v = Undefined THEN Num(d) ELSE v

SidesOf(args) == Default(args.sides, 6)
CountOf(args) == Default(args.count, 1)

SidesError == "A die must have at least 2 sides"
CountError == "Must roll at least 1 die"

\* Array.from({ length: count }, ...) throws a RangeError when the length
\* is above 2^32 - 1.
rollDiceThrows(args) ==
  /\ ~Less(SidesOf(args), 2)
  /\ ~Less(CountOf(args), 1)
  /\ CountOf(args).t = "huge"

\* The values Math.floor(Math.random() * sides) + 1 can take, count times.
RollOutcomes(args) ==
  IF Less(SidesOf(args), 2) \/ Less(CountOf(args), 1) \/ CountOf(args).t # "number"
  THEN {<<>>}
  ELSE [1..CountOf(args).n -> 1..SidesOf(args).n]

\* a bug: the count is not tested
rollDiceNoCountCheck(args, rolls) ==
  IF Less(SidesOf(args), 2)
  THEN [error |-> SidesError, rolls |-> <<>>, total |-> 0]
  ELSE [rolls |-> rolls,
        total |-> Sum(rolls),
        description |-> "Rolled a " \o Show(CountOf(args)) \o "d" \o Show(SidesOf(args))
                        \o " to total " \o ToString(Sum(rolls))]

\* a bug: the count is tested before the sides
rollDiceCountFirst(args, rolls) ==
  IF Less(CountOf(args), 1)
  THEN [error |-> CountError, rolls |-> <<>>, total |-> 0]
  ELSE IF Less(SidesOf(args), 2)
  THEN [error |-> SidesError, rolls |-> <<>>, total |-> 0]
  ELSE [rolls |-> rolls,
        total |-> Sum(rolls),
        description |-> "Rolled a " \o Show(CountOf(args)) \o "d" \o Show(SidesOf(args))
                        \o " to total " \o ToString(Sum(rolls))]

\* rollDice with `rolls` the outcome of the random draws
rollDice(args, rolls) ==
  IF Less(SidesOf(args), 2)
  THEN [error |-> SidesError, rolls |-> <<>>, total |-> 0]
  ELSE IF Less(CountOf(args), 1)
  THEN [error |-> CountError, rolls |-> <<>>, total |-> 0]
  ELSE [rolls |-> rolls,
        total |-> Sum(rolls),
        description |-> "Rolled a " \o Show(CountOf(args)) \o "d" \o Show(SidesOf(args))
                        \o " to total " \o ToString(Sum(rolls))]

\* `result.error != null`
HasError(result) == "error" \in DOMAIN result

----------------------------------------------------------------------------
(* The payloads the model may send as `arguments`, and JSON.parse of them.  *)

RawArguments ==
  { "{\"sides\":2,\"count\":1}",
    "{\"sides\":1,\"count\":1}",
    "{\"sides\":2,\"count\":0}",
    "{\"sides\":2,\"count\":4294967296}",
    "{\"sides\":2,",
    "null" }

JSONparse(text) ==
  CASE text = "{\"sides\":2,\"count\":1}" -> [kind |-> "object", sides |-> Num(2), count |-> Num(1)]
    [] text = "{\"sides\":1,\"count\":1}" -> [kind |-> "object", sides |-> Num(1), count |-> Num(1)]
    [] text = "{\"sides\":2,\"count\":0}" -> [kind |-> "object", sides |-> Num(2), count |-> Num(0)]
    [] text = "{\"sides\":2,\"count\":4294967296}" -> [kind |-> "object", sides |-> Num(2), count |-> Huge]
    [] text = "{}" -> [kind |-> "object", sides |-> Undefined, count |-> Undefined]
    [] text = "null" -> [kind |-> "null"]
    [] OTHER -> [kind |-> "SyntaxError"]

\* JSON.stringify(value): the text that parses back to value
JSONstringify(value) == [json |-> value]

----------------------------------------------------------------------------
(* The inputs of a turn.                                                    *)

\* a property the payload does not have
Absent == "<absent>"

WonderText == "Wonder a few deep thoughts."

\* message events delivered to the assistant's userMessage listener
Messages ==
  [text : {Absent, "", "roll a die", WonderText}, thread_ts : {Absent, "17.01"}]

\* app_mention events
Mentions ==
  [text : {"roll a die"}, thread_ts : {"17.01"}, ts : {"17.02"}]

SkippedNever(m) == FALSE

\* the guard of the message listener: the turn is skipped
Skipped(m) ==
  m.text = Absent \/ m.thread_ts = Absent \/ m.text = "" \/ m.thread_ts = ""

\* text fragments of response.output_text.delta events
Deltas == {"", "a", "b"}

\* the function calls the model may request: the declared tool with each
\* payload, and a tool that was never declared
Requests ==
  {[name |-> "roll_dice", arguments |-> raw] : raw \in RawArguments}
    \cup {[name |-> "get_weather", arguments |-> "{}"]}

\* the call id of the n-th function call of the turn
CallId(n) == "call_" \o ToString(n)

\* the stream events consumed by the other turn, when there is one
OtherEvents == IF "events" \in DOMAIN parked THEN parked.events ELSE <<>>

\* the stream events the backend may still deliver
EventBudget == IF "events" \in DOMAIN parked THEN MaxTwoEvents ELSE MaxEvents

\* the function_call items the backend has issued so far: call ids are
\* never reused, within a turn or across turns
CallsSoFar ==
  Len(SelectSeq(events \o OtherEvents, LAMBDA r :
        r.event.type = "response.output_item.done" /\ r.event.item.type = "function_call"))

\* the cycle in progress: the number of streaming completions requested
Cycle == Len(opened)

----------------------------------------------------------------------------
(* What a handler tells the Slack streamer.                                 *)

TextChunk(text) == [type |-> "markdown_text", text |-> text]
TaskChunk(id, title, st) == [type |-> "task_update", id |-> id, title |-> title, status |-> st]
PlanChunk(title) == [type |-> "plan_update", title |-> title]

\* streamer.append({ markdown_text }) / streamer.append({ chunks })
AppendCall(chunks, ok) == [op |-> "append", chunks |-> chunks, blocks |-> "none", ok |-> ok]
\* streamer.stop({ blocks }) / streamer.stop({ chunks })
StopCall(chunks, blocks, ok) == [op |-> "stop", chunks |-> chunks, blocks |-> blocks, ok |-> ok]

----------------------------------------------------------------------------
(* Decisions of callLlm, one operator per condition of the code.            *)

\* a bug: the delta is appended whatever it holds
AppendsTextUnguarded(event) == event.type = "response.output_text.delta"

\* line 98: the event is a text delta and the delta is truthy
AppendsText(event) ==
  event.type = "response.output_text.delta" /\ event.delta # ""

\* lines 109 and 129: the only tool the loop dispatches
Dispatches(name) == name = "roll_dice"

\* a bug: the loop recurses whether or not a call was collected
AfterStreamAlwaysExec(calls) == "exec"

\* a bug: callLlm returns at the end of every stream
AfterStreamNeverExec(calls) == "stop"

\* line 127: after the stream, perform the calls or return
AfterStream(calls) == IF Len(calls) > 0 THEN "exec" ELSE "stop"

\* a bug: only the first message of the transcript is sent
RequestFirstMessageOnly(transcript, ok) ==
  [input |-> SubSeq(transcript, 1, 1), tools |-> {"roll_dice"}, ok |-> ok]

\* lines 88-94: the request of a streaming completion, with the transcript
\* as input and the declared tools, [rollDiceDefinition]; `ok` is whether
\* the backend accepted it
Request(transcript, ok) ==
  [input |-> transcript, tools |-> {"roll_dice"}, ok |-> ok]

\* a bug: new entries are put in front of the transcript
Unshift(transcript, entries) == entries \o transcript

\* lines 132, 142: prompts.push(...) adds entries at the end of the array
Push(transcript, entries) == transcript \o entries

\* a bug: the entry is keyed by the item id, not by the call id
CallEntryByItemId(call) ==
  [id |-> call.id, call_id |-> call.id, type |-> "function_call",
   name |-> "roll_dice", arguments |-> call.arguments]

\* lines 132-138: the function_call entry pushed for a call
CallEntry(call) ==
  [id |-> call.id, call_id |-> call.call_id, type |-> "function_call",
   name |-> "roll_dice", arguments |-> call.arguments]

\* a bug: the output is keyed by the item id, not by the call id
OutputEntryByItemId(call, result) ==
  [type |-> "function_call_output", call_id |-> call.id,
   output |-> JSONstringify(result)]

\* a bug: only the rolls and the total of a result are reported
OutputEntryWithoutError(call, result) ==
  [type |-> "function_call_output", call_id |-> call.call_id,
   output |-> JSONstringify([rolls |-> result.rolls, total |-> result.total])]

\* lines 142-146: the function_call_output entry pushed for its result
OutputEntry(call, result) ==
  [type |-> "function_call_output", call_id |-> call.call_id,
   output |-> JSONstringify(result)]

\* lines 111-120: the task shown when a roll_dice call arrives
ProgressChunk(item, args) ==
  TaskChunk(item.call_id,
            "Rolling a " \o Show(args.count) \o "d" \o Show(args.sides) \o "...",
            "in_progress")

\* a bug: a failed roll is shown with a fixed title
ResultChunkGeneric(call, result) ==
  IF HasError(result)
  THEN TaskChunk(call.call_id, "The tool failed", "error")
  ELSE TaskChunk(call.call_id, result.description, "complete")

\* lines 148-170: the task update after the roll
ResultChunk(call, result) ==
  IF HasError(result)
  THEN TaskChunk(call.call_id, result.error, "error")
  ELSE TaskChunk(call.call_id, result.description, "complete")

----------------------------------------------------------------------------
\* no second turn is in progress
NoTurn == [pc |-> "absent"]

\* rollDice is not being called directly
NoRoll == [phase |-> "absent"]

\* a listener or helper that is not part of the run
Off == [pc |-> "off"]

AppsOff ==
  /\ ext = Off
  /\ oauth = Off
  /\ summ = Off
  /\ store = Off
  /\ fb = Off
  /\ started = Off

\* no event has reached a listener yet
InitTurn ==
  /\ pc = "idle"
  /\ handler = "none"
  /\ message = [text |-> Absent, thread_ts |-> Absent]
  /\ status = <<>>
  /\ prompts = <<>>
  /\ opened = <<>>
  /\ streamOpen = FALSE
  /\ toolCalls = <<>>
  /\ execIdx = 0
  /\ events = <<>>
  /\ executed = <<>>
  /\ sink = <<>>
  /\ thrown = "none"
  /\ logged = <<>>
  /\ said = <<>>

Init ==
  /\ InitTurn
  /\ cancelled = FALSE
  /\ parked = NoTurn
  /\ roll = NoRoll
  /\ AppsOff

\* an awaited operation rejects: control goes to the handler's catch
Throw(err) == pc' = "catch" /\ thrown' = err

(* message, part_003:105-123: the guard and the choice of the example.      *)
ReceiveMessage ==
  /\ pc = "idle"
  /\ \E m \in Messages :
       /\ message' = m
       /\ handler' = "message"
       /\ pc' = IF Skipped(m) THEN "done"
                ELSE IF m.text # WonderText THEN "setStatus" ELSE "wonder1"
  /\ UNCHANGED outside
  /\ UNCHANGED <<status, prompts, opened, streamOpen, toolCalls, execIdx, events,
                 executed, sink, thrown, logged, said>>

(* appMentionCallback, part_004:16-19.                                      *)
ReceiveMention ==
  /\ pc = "idle"
  /\ \E e \in Mentions :
       /\ message' = e
       /\ handler' = "app_mention"
       /\ pc' = "setStatus"
  /\ UNCHANGED outside
  /\ UNCHANGED <<status, prompts, opened, streamOpen, toolCalls, execIdx, events,
                 executed, sink, thrown, logged, said>>

(* await setStatus({status: 'thinking...'}), then the streamer and the      *)
(* prompts are built: part_003:124-148, part_004:21-47.                     *)
SetStatus ==
  /\ pc = "setStatus"
  /\ \E ok \in BOOLEAN :
       /\ status' = Append(status, [status |-> "thinking...", ok |-> ok])
       /\ IF ok
          THEN /\ prompts' = <<[role |-> "user", content |-> message.text]>>
               /\ pc' = "open"
               /\ UNCHANGED thrown
          ELSE /\ Throw("StatusError")
               /\ UNCHANGED prompts
  /\ UNCHANGED outside
  /\ UNCHANGED <<handler, message, opened, streamOpen, toolCalls, execIdx, events,
                 executed, sink, logged, said>>

\* a bug: callLlm swallows the failure of the request and returns
OpenFailureSwallowed == pc' = "stop" /\ thrown' = "BackendConnectionError"

\* dice.js:88: `await openai.responses.create(...)` rejects, and with no
\* try/catch in callLlm the rejection reaches the handler
OpenFailure == Throw("BackendConnectionError")

\* a bug: a rejected streamer.append is swallowed and the loop goes on
SinkFailureIgnored == UNCHANGED <<pc, thrown>>

\* dice.js:99, 111, 149, 160: `await streamer.append(...)` rejects, and with
\* no try/catch in callLlm the rejection reaches the handler
SinkFailure == Throw("SinkError")

(* callLlm entry, dice.js:85-94: a fresh toolCalls list and the streaming   *)
(* completion request with the transcript as input.                         *)
OpenStream ==
  /\ pc = "open"
  /\ \E ok \in BOOLEAN :
       /\ opened' = Append(opened, Request(prompts, ok))
       /\ toolCalls' = <<>>
       /\ execIdx' = 0
       /\ IF ok
          THEN /\ streamOpen' = TRUE
               /\ pc' = "stream"
               /\ UNCHANGED thrown
          ELSE /\ OpenFailure
               /\ UNCHANGED streamOpen
  /\ UNCHANGED outside
  /\ UNCHANGED <<handler, message, status, prompts, events, executed, sink, logged, said>>

\* the stream delivers `event` to the for-await loop
Consume(event) ==
  /\ pc = "stream"
  /\ Len(events) + Len(OtherEvents) < EventBudget
  /\ events' = Append(events, [cycle |-> Cycle, event |-> event])

(* dice.js:96-102: a text delta.                                            *)
StreamTextDelta ==
  /\ \E d \in Deltas, ok \in BOOLEAN :
       LET event == [type |-> "response.output_text.delta", delta |-> d] IN
       /\ Consume(event)
       /\ IF AppendsText(event)
          THEN /\ sink' = Append(sink, AppendCall(<<TextChunk(d)>>, ok))
               /\ IF ok THEN UNCHANGED <<pc, thrown>> ELSE SinkFailure
          ELSE /\ ok
               /\ UNCHANGED <<sink, pc, thrown>>
  /\ UNCHANGED outside
  /\ UNCHANGED <<handler, message, status, prompts, opened, streamOpen, toolCalls,
                 execIdx, executed, logged, said>>

(* dice.js:104-123: a completed function call item.                         *)
StreamFunctionCall ==
  /\ \E req \in Requests, ok \in BOOLEAN :
       LET name == req.name
           raw == req.arguments
           id == CallId(CallsSoFar + 1)
           item == [type |-> "function_call", id |-> "fc_" \o id, call_id |-> id,
                    name |-> name, arguments |-> raw]
           event == [type |-> "response.output_item.done", item |-> item]
           args == JSONparse(raw)
       IN
       /\ Consume(event)
       /\ toolCalls' = Append(toolCalls, item)
       /\ IF ~Dispatches(name)
          THEN /\ ok
               /\ UNCHANGED <<sink, pc, thrown>>
          ELSE IF args.kind = "SyntaxError"
          THEN /\ ok
               /\ Throw("SyntaxError")
               /\ UNCHANGED sink
          ELSE IF args.kind = "null"
          THEN /\ ok
               /\ Throw("TypeError")
               /\ UNCHANGED sink
          ELSE /\ sink' = Append(sink, AppendCall(<<ProgressChunk(item, args)>>, ok))
               /\ IF ok THEN UNCHANGED <<pc, thrown>> ELSE SinkFailure
  /\ UNCHANGED outside
  /\ UNCHANGED <<handler, message, status, prompts, opened, streamOpen, execIdx,
                 executed, logged, said>>

(* dice.js:105-106: a completed item that is no function call.              *)
StreamOtherItem ==
  /\ Consume([type |-> "response.output_item.done", item |-> [type |-> "message"]])
  /\ UNCHANGED outside
  /\ UNCHANGED <<pc, handler, message, status, prompts, opened, streamOpen, toolCalls,
                 execIdx, executed, sink, thrown, logged, said>>

\* a bug: the loop is left at the first collected call, with the rest of
\* the stream unconsumed
StreamEndAtFirstCall ==
  /\ pc = "stream"
  /\ streamOpen' = (Len(toolCalls) > 0)
  /\ pc' = AfterStream(toolCalls)
  /\ execIdx' = IF AfterStream(toolCalls) = "exec" THEN 1 ELSE 0
  /\ UNCHANGED outside
  /\ UNCHANGED <<handler, message, status, prompts, opened, toolCalls, events,
                 executed, sink, thrown, logged, said>>

(* dice.js:124-127: the stream is exhausted.                                *)
StreamEnd ==
  /\ pc = "stream"
  /\ streamOpen' = FALSE
  /\ pc' = AfterStream(toolCalls)
  /\ execIdx' = IF AfterStream(toolCalls) = "exec" THEN 1 ELSE 0
  /\ UNCHANGED outside
  /\ UNCHANGED <<handler, message, status, prompts, opened, toolCalls, events,
                 executed, sink, thrown, logged, said>>

(* dice.js:96: the stream iterator rejects (connection lost).               *)
StreamFails ==
  /\ pc = "stream"
  /\ streamOpen' = FALSE
  /\ Throw("StreamError")
  /\ UNCHANGED outside
  /\ UNCHANGED <<handler, message, status, prompts, opened, toolCalls, execIdx,
                 events, executed, sink, logged, said>>

(* dice.js:128-172: one iteration of the loop over toolCalls.               *)
ExecCall ==
  /\ pc = "exec"
  /\ execIdx <= Len(toolCalls)
  /\ LET call == toolCalls[execIdx]
         args == JSONparse(call.arguments)
     IN
     IF ~Dispatches(call.name)
     THEN /\ execIdx' = execIdx + 1
          /\ UNCHANGED <<pc, prompts, executed, sink, thrown>>
     ELSE IF args.kind = "SyntaxError"
     THEN \* line 130: JSON.parse throws before anything is pushed
          /\ Throw("SyntaxError")
          /\ UNCHANGED <<execIdx, prompts, executed, sink>>
     ELSE /\ executed' = Append(executed, [cycle |-> Cycle, call_id |-> call.call_id])
          /\ IF args.kind = "null"
             THEN \* line 140: destructuring null throws
                  /\ prompts' = Push(prompts, <<CallEntry(call)>>)
                  /\ Throw("TypeError")
                  /\ UNCHANGED <<execIdx, sink>>
             ELSE IF rollDiceThrows(args)
             THEN /\ prompts' = Push(prompts, <<CallEntry(call)>>)
                  /\ Throw("RangeError")
                  /\ UNCHANGED <<execIdx, sink>>
             ELSE \E rolls \in RollOutcomes(args), ok \in BOOLEAN :
                    LET result == rollDice(args, rolls) IN
                    /\ prompts' = Push(prompts, <<CallEntry(call), OutputEntry(call, result)>>)
                    /\ sink' = Append(sink, AppendCall(<<ResultChunk(call, result)>>, ok))
                    /\ IF ok
                       THEN /\ execIdx' = execIdx + 1
                            /\ UNCHANGED <<pc, thrown>>
                       ELSE /\ SinkFailure
                            /\ UNCHANGED execIdx
  /\ UNCHANGED outside
  /\ UNCHANGED <<handler, message, status, opened, streamOpen, toolCalls, events,
                 logged, said>>

(* dice.js:174-175: the calls are done, callLlm calls itself.               *)
Recurse ==
  /\ pc = "exec"
  /\ execIdx > Len(toolCalls)
  /\ pc' = "open"
  /\ UNCHANGED outside
  /\ UNCHANGED <<handler, message, status, prompts, opened, streamOpen, toolCalls,
                 execIdx, events, executed, sink, thrown, logged, said>>

\* a bug: the streamer is stopped twice
StopTwice ==
  /\ pc = "stop"
  /\ \E ok \in BOOLEAN :
       /\ sink' = sink \o <<StopCall(<<>>, "feedbackBlock", TRUE),
                             StopCall(<<>>, "feedbackBlock", ok)>>
       /\ IF ok THEN pc' = "done" /\ UNCHANGED thrown ELSE Throw("SinkError")
  /\ UNCHANGED outside
  /\ UNCHANGED <<handler, message, status, prompts, opened, streamOpen, toolCalls,
                 execIdx, events, executed, logged, said>>

(* part_003:152, part_004:50: await streamer.stop({blocks: [feedbackBlock]}) *)
Stop ==
  /\ pc = "stop"
  /\ \E ok \in BOOLEAN :
       /\ sink' = Append(sink, StopCall(<<>>, "feedbackBlock", ok))
       /\ IF ok THEN pc' = "done" /\ UNCHANGED thrown ELSE Throw("SinkError")
  /\ UNCHANGED outside
  /\ UNCHANGED <<handler, message, status, prompts, opened, streamOpen, toolCalls,
                 execIdx, events, executed, logged, said>>

(* part_003:236-239, part_004:51-54: the catch block.                       *)
Catch ==
  /\ pc = "catch"
  /\ logged' = Append(logged, thrown)
  /\ \E ok \in BOOLEAN :
       /\ said' = Append(said, [text |-> ":warning: Something went wrong!", ok |-> ok])
       /\ pc' = IF ok THEN "done" ELSE "rejected"
  /\ UNCHANGED outside
  /\ UNCHANGED <<handler, message, status, prompts, opened, streamOpen, toolCalls,
                 execIdx, events, executed, sink, thrown>>

----------------------------------------------------------------------------
(* The second example of the message listener, part_003:153-235.            *)

Wonder1 ==
  /\ pc = "wonder1"
  /\ \E ok \in BOOLEAN :
       /\ sink' = Append(sink, AppendCall(
            <<TextChunk("Hello.\nI have received the task. "),
              TextChunk("This task appears manageable.\nThat is good."),
              TaskChunk("001", "Understanding the task...", "in_progress"),
              TaskChunk("002", "Performing acrobatics...", "pending")>>, ok))
       /\ IF ok THEN pc' = "wonder2" /\ UNCHANGED thrown ELSE Throw("SinkError")
  /\ UNCHANGED outside
  /\ UNCHANGED <<handler, message, status, prompts, opened, streamOpen, toolCalls,
                 execIdx, events, executed, logged, said>>

Wonder2 ==
  /\ pc = "wonder2"
  /\ \E ok \in BOOLEAN :
       /\ sink' = Append(sink, AppendCall(
            <<PlanChunk("Adding the final pieces..."),
              TaskChunk("001", "Understanding the task...", "complete"),
              TaskChunk("002", "Performing acrobatics...", "in_progress")>>, ok))
       /\ IF ok THEN pc' = "wonder3" /\ UNCHANGED thrown ELSE Throw("SinkError")
  /\ UNCHANGED outside
  /\ UNCHANGED <<handler, message, status, prompts, opened, streamOpen, toolCalls,
                 execIdx, events, executed, logged, said>>

Wonder3 ==
  /\ pc = "wonder3"
  /\ \E ok \in BOOLEAN :
       /\ sink' = Append(sink, StopCall(
            <<PlanChunk("Decided to put on a show"),
              TaskChunk("002", "Performing acrobatics...", "complete"),
              TextChunk("The crowd appears to be astouned and applauds :popcorn:")>>,
            "none", ok))
       /\ IF ok THEN pc' = "done" /\ UNCHANGED thrown ELSE Throw("SinkError")
  /\ UNCHANGED outside
  /\ UNCHANGED <<handler, message, status, prompts, opened, streamOpen, toolCalls,
                 execIdx, events, executed, logged, said>>

----------------------------------------------------------------------------
Next ==
  \/ ReceiveMessage
  \/ ReceiveMention
  \/ SetStatus
  \/ OpenStream
  \/ StreamTextDelta
  \/ StreamFunctionCall
  \/ StreamOtherItem
  \/ StreamEnd
  \/ StreamFails
  \/ ExecCall
  \/ Recurse
  \/ Stop
  \/ Catch
  \/ Wonder1
  \/ Wonder2
  \/ Wonder3

Spec == Init /\ [][Next]_vars

(* The surrounding request is cancelled or times out while the turn runs.   *)
(* Neither handler nor callLlm takes or reads a signal (part_003:105-113,   *)
(* dice.js:85): the event changes nothing the turn looks at.                *)
Cancel ==
  /\ ~cancelled
  /\ pc \notin {"idle", "done", "rejected"}
  /\ cancelled' = TRUE
  /\ UNCHANGED <<parked, roll>>
  /\ UNCHANGED apps
  /\ UNCHANGED turnVars

NextCancel ==
  \/ Next
  \/ Cancel

SpecCancel == Init /\ [][NextCancel]_vars

----------------------------------------------------------------------------
(* Two turns in one process: a message event and an app_mention event were  *)
(* both dispatched, and the event loop runs one continuation at a time.     *)
(* Every state of a turn is an await; `parked` holds the locals of the turn *)
(* that is waiting, and Switch resumes it.                                  *)

\* the locals of the running turn
Running ==
  [pc |-> pc, handler |-> handler, message |-> message, status |-> status,
   prompts |-> prompts, opened |-> opened, streamOpen |-> streamOpen,
   toolCalls |-> toolCalls, execIdx |-> execIdx, events |-> events,
   executed |-> executed, sink |-> sink, thrown |-> thrown, logged |-> logged,
   said |-> said]

\* a bug: toolCalls is one list of the module, seen by every invocation
ToolCallsShared == toolCalls

\* dice.js:86: `const toolCalls = []` is a local of the callLlm invocation,
\* so the resumed turn finds its own list
ToolCallsOnResume == parked.toolCalls

InitTwo ==
  /\ pc = "setStatus"
  /\ handler = "message"
  /\ message = [text |-> "roll a die", thread_ts |-> "17.01"]
  /\ status = <<>>
  /\ prompts = <<>>
  /\ opened = <<>>
  /\ streamOpen = FALSE
  /\ toolCalls = <<>>
  /\ execIdx = 0
  /\ events = <<>>
  /\ executed = <<>>
  /\ sink = <<>>
  /\ thrown = "none"
  /\ logged = <<>>
  /\ said = <<>>
  /\ cancelled = FALSE
  /\ roll = NoRoll
  /\ AppsOff
  /\ parked = [pc |-> "setStatus", handler |-> "app_mention",
               message |-> [text |-> "flip a coin", thread_ts |-> "18.01", ts |-> "18.02"],
               status |-> <<>>, prompts |-> <<>>, opened |-> <<>>, streamOpen |-> FALSE,
               toolCalls |-> <<>>, execIdx |-> 0, events |-> <<>>, executed |-> <<>>,
               sink |-> <<>>, thrown |-> "none", logged |-> <<>>, said |-> <<>>]

\* the running turn waits at its await (or has ended) and the other turn,
\* which has a continuation left, is resumed
Switch ==
  /\ parked # NoTurn
  /\ parked.pc \notin {"done", "rejected"}
  /\ parked' = Running
  /\ pc' = parked.pc
  /\ handler' = parked.handler
  /\ message' = parked.message
  /\ status' = parked.status
  /\ prompts' = parked.prompts
  /\ opened' = parked.opened
  /\ streamOpen' = parked.streamOpen
  /\ toolCalls' = ToolCallsOnResume
  /\ execIdx' = parked.execIdx
  /\ events' = parked.events
  /\ executed' = parked.executed
  /\ sink' = parked.sink
  /\ thrown' = parked.thrown
  /\ logged' = parked.logged
  /\ said' = parked.said
  /\ UNCHANGED <<cancelled, roll>>
  /\ UNCHANGED apps

NextTwo ==
  \/ SetStatus
  \/ OpenStream
  \/ StreamTextDelta
  \/ StreamFunctionCall
  \/ StreamOtherItem
  \/ StreamEnd
  \/ StreamFails
  \/ ExecCall
  \/ Recurse
  \/ Stop
  \/ Catch
  \/ Switch

SpecTwo == InitTwo /\ [][NextTwo]_vars

----------------------------------------------------------------------------
(* rollDice called on its own, dice.js:9-34, over a bounded range of        *)
(* arguments: each of sides and count is left out, a small integer or, for  *)
(* count, 2^32.                                                             *)

MaxSides == 3
MaxCount == 3

SidesInputs == {Undefined} \cup {Num(n) : n \in -1..MaxSides}
CountInputs == {Undefined, Huge} \cup {Num(n) : n \in -1..MaxCount}

InitRoll ==
  /\ InitTurn
  /\ cancelled = FALSE
  /\ parked = NoTurn
  /\ roll = [phase |-> "idle"]
  /\ AppsOff

\* rollDice({sides, count}) is entered
RollCall ==
  /\ roll.phase = "idle"
  /\ \E s \in SidesInputs, c \in CountInputs :
       roll' = [phase |-> "called", args |-> [kind |-> "object", sides |-> s, count |-> c]]
  /\ UNCHANGED <<cancelled, parked>>
  /\ UNCHANGED apps
  /\ UNCHANGED turnVars

\* lines 10-33: it returns a result, or line 26 throws
RollReturn ==
  /\ roll.phase = "called"
  /\ IF rollDiceThrows(roll.args)
     THEN roll' = [phase |-> "threw", args |-> roll.args, error |-> "RangeError"]
     ELSE \E rolls \in RollOutcomes(roll.args) :
            roll' = [phase |-> "returned", args |-> roll.args,
                     result |-> rollDice(roll.args, rolls)]
  /\ UNCHANGED <<cancelled, parked>>
  /\ UNCHANGED apps
  /\ UNCHANGED turnVars

\* the caller goes on to another call
RollAgain ==
  /\ roll.phase \in {"returned", "threw"}
  /\ roll' = [phase |-> "idle"]
  /\ UNCHANGED <<cancelled, parked>>
  /\ UNCHANGED apps
  /\ UNCHANGED turnVars

NextRoll ==
  \/ RollCall
  \/ RollReturn
  \/ RollAgain

SpecRoll == InitRoll /\ [][NextRoll]_vars

----------------------------------------------------------------------------
(* extractThreadInfo, src/app.js:285-314, called on its own over the        *)
(* payloads of assistant_thread_started / assistant_thread_context_changed  *)
(* events and of messages.  A property that is not in the payload is        *)
(* Absent; a property that is there may hold undefined or ''.               *)

NotDefined == "<undefined>"

\* `!v` for a string or undefined
Falsy(v) == v \in {"", NotDefined}

\* `context = {}`, line 288
EmptyContext == [channel_id |-> NotDefined]

\* the payload has no assistant_thread property
NoThread == [absent |-> TRUE]

AssistantThreads ==
  {NoThread} \cup [channel_id : {"", "D1"}, thread_ts : {"", "1.0"},
                 context : {EmptyContext, [channel_id |-> "C7"]}]

Payloads ==
  [assistant_thread : AssistantThreads,
   channel : {Absent, "", "D2"},
   thread_ts : {Absent, NotDefined, "", "2.0"}]

\* line 298: the payload is a user message in a thread
IsThreadMessage(payload) ==
  /\ payload.channel # Absent
  /\ payload.thread_ts # Absent
  /\ payload.thread_ts # NotDefined

\* lines 286, 291-292, 298-299: the value of channelId at line 304
ChannelIdOf(payload) ==
  IF IsThreadMessage(payload) THEN payload.channel
  ELSE IF payload.assistant_thread # NoThread THEN payload.assistant_thread.channel_id
  ELSE ""

\* lines 287, 293, 300: the value of threadTs at line 304
ThreadTsOf(payload) ==
  IF IsThreadMessage(payload) THEN payload.thread_ts
  ELSE IF payload.assistant_thread # NoThread THEN payload.assistant_thread.thread_ts
  ELSE ""

\* lines 288, 294: the value of context
ContextOf(payload) ==
  IF payload.assistant_thread # NoThread THEN payload.assistant_thread.context
  ELSE EmptyContext

\* lines 305-306: the keys pushed to missingProps are those that are truthy
MissingProps(payload) ==
  SelectSeq(<<ChannelIdOf(payload), ThreadTsOf(payload)>>, LAMBDA key : ~Falsy(key))

\* `missingProps.join(', ')`
Join(keys) ==
  IF Len(keys) = 0 THEN ""
  ELSE IF Len(keys) = 1 THEN keys[1]
  ELSE keys[1] \o ", " \o keys[2]

extractThreadInfo(payload) ==
  IF /\ Falsy(ChannelIdOf(payload)) \/ Falsy(ThreadTsOf(payload))
     /\ Len(MissingProps(payload)) > 0
  THEN [kind |-> "throw", error |-> "AssistantMissingPropertyError",
        message |-> "Assistant message event is missing required properties: "
                    \o Join(MissingProps(payload))]
  ELSE [kind |-> "return", channelId |-> ChannelIdOf(payload),
        threadTs |-> ThreadTsOf(payload), context |-> ContextOf(payload)]

InitExtract ==
  /\ InitTurn
  /\ cancelled = FALSE
  /\ parked = NoTurn
  /\ roll = NoRoll
  /\ ext = [pc |-> "idle"]
  /\ oauth = Off
  /\ summ = Off
  /\ store = Off
  /\ fb = Off
  /\ started = Off

\* extractThreadInfo(payload) is entered
ExtractCall ==
  /\ ext.pc = "idle"
  /\ \E payload \in Payloads : ext' = [pc |-> "called", payload |-> payload]
  /\ UNCHANGED <<turnVars, cancelled, parked, roll, oauth, summ, store, fb, started>>

\* it returns or throws
ExtractEnd ==
  /\ ext.pc = "called"
  /\ ext' = [pc |-> "ended", payload |-> ext.payload,
             outcome |-> extractThreadInfo(ext.payload)]
  /\ UNCHANGED <<turnVars, cancelled, parked, roll, oauth, summ, store, fb, started>>

\* the caller goes on to another call
ExtractAgain ==
  /\ ext.pc = "ended"
  /\ ext' = [pc |-> "idle"]
  /\ UNCHANGED <<turnVars, cancelled, parked, roll, oauth, summ, store, fb, started>>

NextExtract ==
  \/ ExtractCall
  \/ ExtractEnd
  \/ ExtractAgain

SpecExtract == InitExtract /\ [][NextExtract]_vars

----------------------------------------------------------------------------
(* The message listener of src/app-oauth.js:149-240 (the same statements    *)
(* as userMessage of src/app.js:419-511).  `oauth.log` is the history of    *)
(* the calls it makes to the Slack client and to OpenAI; a call that is     *)
(* awaited alone is logged with its outcome; the two calls of the prompt    *)
(* path are logged when issued and again when each settles.                 *)

OAuthTexts ==
  {"When the user clicks a prompt, the resulting sample prompt message text can be passed to your LLM for processing",
   "It's good to have options!",
   "hello"}

OAuthMessages ==
  [channel_type : {"im", "channel"},
   subtype : {NotDefined, "file_share", "bot_message"},
   text : OAuthTexts]

\* app-oauth.js:154
IsAssistantMessage(m) ==
  m.channel_type = "im" /\ m.subtype \in {NotDefined, "file_share"}

\* app-oauth.js:179: message.text.includes(...) || message.text.includes(...)
IsPrompt(text) ==
  text \in {"When the user clicks a prompt, the resulting sample prompt message text can be passed to your LLM for processing",
            "It's good to have options!"}

InitOAuth ==
  /\ InitTurn
  /\ cancelled = FALSE
  /\ parked = NoTurn
  /\ roll = NoRoll
  /\ ext = Off
  /\ oauth = [pc |-> "idle", log |-> <<>>, post |-> "none"]
  /\ summ = Off
  /\ store = Off
  /\ fb = Off
  /\ started = Off

\* the frame of every step of this listener
OAuthFrame == UNCHANGED <<turnVars, cancelled, parked, roll, ext, summ, store, fb, started>>

\* an awaited call: it is logged with its outcome, and a rejection leaves
\* the listener, which has no try/catch
OAuthAwait(at, entry, next) ==
  /\ oauth.pc = at
  /\ \E ok \in BOOLEAN :
       oauth' = [oauth EXCEPT !.log = Append(@, entry @@ [ok |-> ok]),
                              !.pc = IF ok THEN next ELSE "rejected"]
  /\ OAuthFrame

\* lines 149-155
OAuthReceive ==
  /\ oauth.pc = "idle"
  /\ \E m \in OAuthMessages :
       oauth' = [oauth EXCEPT !.pc = IF IsAssistantMessage(m) THEN "setTitle" ELSE "done"]
                  @@ [message |-> m]
  /\ OAuthFrame

\* lines 161-165
OAuthSetTitle == OAuthAwait("setTitle", [call |-> "setTitle"], "setStatus")

\* lines 172-176, and the test of lines 179-180
OAuthSetStatus ==
  OAuthAwait("setStatus", [call |-> "setStatus", status |-> "is typing.."],
             IF IsPrompt(oauth.message.text) THEN "promptPost" ELSE "replies")

\* lines 182-193: client.chat.postMessage(...) is called and not awaited,
\* so setStatus('') is called in the same turn of the event loop, before
\* the reply can settle
OAuthPromptPost ==
  /\ oauth.pc = "promptPost"
  /\ oauth' = [oauth EXCEPT !.log = @ \o <<[call |-> "postMessage", issued |-> TRUE],
                                           [call |-> "setStatus", status |-> "", issued |-> TRUE]>>,
                            !.post = "pending",
                            !.pc = "promptClear"]
  /\ OAuthFrame

\* the reply of the prompt path settles, whenever the Slack API answers
OAuthPostSettles ==
  /\ oauth.post = "pending"
  /\ \E ok \in BOOLEAN :
       oauth' = [oauth EXCEPT !.log = Append(@, [settled |-> "postMessage", ok |-> ok]),
                              !.post = IF ok THEN "done" ELSE "failed"]
  /\ OAuthFrame

\* lines 189-195: the await of setStatus('') settles, then `return`
OAuthPromptClear ==
  OAuthAwait("promptClear", [settled |-> "setStatus"], "done")

\* lines 201-205
OAuthReplies == OAuthAwait("replies", [call |-> "conversations.replies"], "llm")

\* lines 221-225
OAuthLlm == OAuthAwait("llm", [call |-> "chat.completions.create"], "reply")

\* lines 228-232
OAuthReply == OAuthAwait("reply", [call |-> "postMessage"], "clear")

\* lines 235-239
OAuthClear == OAuthAwait("clear", [call |-> "setStatus", status |-> ""], "done")

NextOAuth ==
  \/ OAuthReceive
  \/ OAuthSetTitle
  \/ OAuthSetStatus
  \/ OAuthPromptPost
  \/ OAuthPostSettles
  \/ OAuthPromptClear
  \/ OAuthReplies
  \/ OAuthLlm
  \/ OAuthReply
  \/ OAuthClear

SpecOAuth == InitOAuth /\ [][NextOAuth]_vars

----------------------------------------------------------------------------
(* userMessage of src/unnamed/part_000:119-263, the listener with the       *)
(* summarize-channel path.  `summ.log` is the history of the calls it       *)
(* makes, each with its outcome, and of what it writes to the console.      *)

SummarizeText == "Assistant, please summarize the activity in this channel!"

SummMessages ==
  [channel_type : {"im", "channel"},
   subtype : {NotDefined, "file_share", "bot_message"},
   text : {SummarizeText, "hello"}]

\* what conversations.history can reject with: a Slack platform error
\* carries data.error, any other error (a network failure) has no data
HistoryErrors ==
  {[data |-> [error |-> "not_in_channel"]],
   [data |-> [error |-> "channel_not_found"]],
   [message |-> "socket hang up"]}

\* lines 165-167: the event payload saved with the first bot message, or null
ThreadContexts == {"null", "C7"}

JoinsAlways(e) == "join"

\* lines 175-187, the inner catch: reading e.data.error of an error without
\* data is a TypeError, which leaves the inner catch
Handling(e) ==
  IF "data" \notin DOMAIN e THEN "throw"
  ELSE IF e.data.error = "not_in_channel" THEN "join"
  ELSE "log"

InitSumm ==
  /\ InitTurn
  /\ cancelled = FALSE
  /\ parked = NoTurn
  /\ roll = NoRoll
  /\ ext = Off
  /\ oauth = Off
  /\ summ = [pc |-> "idle", log |-> <<>>]
  /\ store = Off
  /\ fb = Off
  /\ started = Off

SummFrame == UNCHANGED <<turnVars, cancelled, parked, roll, ext, oauth, store, fb, started>>

\* an awaited call inside the outer try: a rejection goes to the catch of
\* line 254
SummAwait(at, name, next) ==
  /\ summ.pc = at
  /\ \E ok \in BOOLEAN :
       summ' = [summ EXCEPT !.log = Append(@, [call |-> name, ok |-> ok]),
                            !.pc = IF ok THEN next ELSE "catch"]
  /\ SummFrame

\* lines 119-125
SummReceive ==
  /\ summ.pc = "idle"
  /\ \E m \in SummMessages :
       summ' = [summ EXCEPT !.pc = IF IsAssistantMessage(m) THEN "setTitle" ELSE "done"]
                 @@ [message |-> m]
  /\ SummFrame

\* lines 133-137
SummSetTitle == SummAwait("setTitle", "setTitle", "setStatus")

\* lines 143-147
SummSetStatus == SummAwait("setStatus", "setStatus", "replies")

\* lines 153-167 and 222-226: both scenarios start with conversations.replies;
\* the summarize path then looks for the saved thread context
SummReplies ==
  /\ summ.pc = "replies"
  /\ \/ /\ summ.message.text = SummarizeText
        /\ \E c \in ThreadContexts :
             summ' = [summ EXCEPT !.log = Append(@, [call |-> "conversations.replies", ok |-> TRUE]),
                                  !.pc = "history"]
                       @@ [threadContext |-> c]
     \/ /\ summ.message.text # SummarizeText
        /\ summ' = [summ EXCEPT !.log = Append(@, [call |-> "conversations.replies", ok |-> TRUE]),
                                !.pc = "llm"]
     \/ summ' = [summ EXCEPT !.log = Append(@, [call |-> "conversations.replies", ok |-> FALSE]),
                             !.pc = "catch"]
  /\ SummFrame

\* lines 170-187 and 190-193: the first conversations.history and the inner
\* catch.  threadContext.channel_id of a null context is a TypeError before
\* the call is made; after `console.error(e)` channelHistory is undefined
\* and channelHistory.messages of line 191 is a TypeError.
SummHistory ==
  /\ summ.pc = "history"
  /\ \/ /\ summ.threadContext = "null"
        /\ summ' = [summ EXCEPT !.pc = "catch"]
     \/ /\ summ.threadContext # "null"
        /\ \/ summ' = [summ EXCEPT !.log = Append(@, [call |-> "conversations.history", ok |-> TRUE]),
                                   !.pc = "llm"]
           \/ \E e \in HistoryErrors :
                LET failed == Append(summ.log, [call |-> "conversations.history", ok |-> FALSE, error |-> e])
                IN  summ' = [summ EXCEPT
                      !.log = IF Handling(e) = "log"
                              THEN Append(failed, [console |-> "error"])
                              ELSE failed,
                      !.pc = IF Handling(e) = "join" THEN "join" ELSE "catch"]
  /\ SummFrame

\* line 179
SummJoin == SummAwait("join", "conversations.join", "retry")

\* lines 180-183
SummRetry == SummAwait("retry", "conversations.history", "llm")

\* lines 201-205 and 242-246
SummLlm == SummAwait("llm", "chat.completions.create", "post")

\* lines 208-214 and 249-253
SummPost ==
  /\ summ.pc = "post"
  /\ \E ok \in BOOLEAN :
       summ' = [summ EXCEPT
         !.log = Append(@, [call |-> "postMessage", text |-> "llmResponse", ok |-> ok]),
         !.pc = IF ok THEN "done" ELSE "catch"]
  /\ SummFrame

\* lines 254-262: the outer catch, whose own await is not guarded
SummCatch ==
  /\ summ.pc = "catch"
  /\ \E ok \in BOOLEAN :
       summ' = [summ EXCEPT
         !.log = @ \o <<[console |-> "error"], [call |-> "clearStatus", ok |-> ok]>>,
         !.pc = IF ok THEN "done" ELSE "rejected"]
  /\ SummFrame

NextSumm ==
  \/ SummReceive
  \/ SummSetTitle
  \/ SummSetStatus
  \/ SummReplies
  \/ SummHistory
  \/ SummJoin
  \/ SummRetry
  \/ SummLlm
  \/ SummPost
  \/ SummCatch

SpecSumm == InitSumm /\ [][NextSumm]_vars

----------------------------------------------------------------------------
(* installationStore of src/app-oauth.js:7-51: three operations on the Map  *)
(* tempDB.  `store.db` is the Map, with NoInstallation where it has no      *)
(* entry; `store.ops` is the history of the calls, each with its argument   *)
(* and its outcome.                                                         *)

MaxOps == 3

NoInstallation == [absent |-> TRUE]

\* enterprise ids and team ids of Slack are distinct strings
StoreKeys == {"E1", "T1"}

\* the objects Bolt hands to storeInstallation, reduced to what is read
Installations ==
  [isEnterpriseInstall : BOOLEAN,
   enterprise : {NotDefined, "E1"},
   team : {NotDefined, "T1"},
   botToken : {"xoxb-1", "xoxb-2"}]

\* the queries Bolt hands to fetchInstallation and deleteInstallation
InstallQueries ==
  [isEnterpriseInstall : BOOLEAN,
   enterpriseId : {NotDefined, "E1"},
   teamId : {NotDefined, "T1"}]

UsableEnterpriseUnflagged(flag, id) == id # NotDefined

\* lines 20, 31 and 42: flag && id !== undefined
UsableEnterprise(flag, id) == flag /\ id # NotDefined

\* lines 20-27: the key storeInstallation writes, or none
InstallationKey(installation) ==
  IF UsableEnterprise(installation.isEnterpriseInstall, installation.enterprise)
  THEN installation.enterprise
  ELSE installation.team

\* lines 31-38 and 42-49: the key a query reads or deletes, or none
QueryKey(installQuery) ==
  IF UsableEnterprise(installQuery.isEnterpriseInstall, installQuery.enterpriseId)
  THEN installQuery.enterpriseId
  ELSE installQuery.teamId

MapDeleteKeeps(db, key) == db

\* Map.prototype.set, .get and .delete
MapSet(db, key, value) == [db EXCEPT ![key] = value]
MapGet(db, key) == db[key]
MapDelete(db, key) == [db EXCEPT ![key] = NoInstallation]

StoreThrow(text) == [kind |-> "throw", message |-> text]

InitStore ==
  /\ InitTurn
  /\ cancelled = FALSE
  /\ parked = NoTurn
  /\ roll = NoRoll
  /\ ext = Off
  /\ oauth = Off
  /\ summ = Off
  /\ store = [db |-> [k \in StoreKeys |-> NoInstallation], ops |-> <<>>]
  /\ fb = Off
  /\ started = Off

StoreFrame == UNCHANGED <<turnVars, cancelled, parked, roll, ext, oauth, summ, fb, started>>

\* lines 18-28
storeInstallation ==
  /\ Len(store.ops) < MaxOps
  /\ \E installation \in Installations :
       LET key == InstallationKey(installation)
           op == [op |-> "store", arg |-> installation]
       IN  store' =
             IF key # NotDefined
             THEN [db |-> MapSet(store.db, key, installation),
                   ops |-> Append(store.ops, op @@ [result |-> [kind |-> "return"]])]
             ELSE [store EXCEPT !.ops = Append(@, op @@
                     [result |-> StoreThrow("Failed saving installation data to installationStore")])]
  /\ StoreFrame

\* lines 29-39
fetchInstallation ==
  /\ Len(store.ops) < MaxOps
  /\ \E installQuery \in InstallQueries :
       LET key == QueryKey(installQuery)
           op == [op |-> "fetch", arg |-> installQuery]
       IN  store' = [store EXCEPT !.ops = Append(@, op @@
             [result |-> IF key # NotDefined
                         THEN [kind |-> "return", value |-> MapGet(store.db, key)]
                         ELSE StoreThrow("Failed fetching installation")])]
  /\ StoreFrame

\* lines 40-50
deleteInstallation ==
  /\ Len(store.ops) < MaxOps
  /\ \E installQuery \in InstallQueries :
       LET key == QueryKey(installQuery)
           op == [op |-> "delete", arg |-> installQuery]
       IN  store' =
             IF key # NotDefined
             THEN [db |-> MapDelete(store.db, key),
                   ops |-> Append(store.ops, op @@
                     [result |-> [kind |-> "return",
                                  value |-> MapGet(store.db, key) # NoInstallation]])]
             ELSE [store EXCEPT !.ops = Append(@, op @@
                     [result |-> StoreThrow("Failed to delete installation")])]
  /\ StoreFrame

NextStore ==
  \/ storeInstallation
  \/ fetchInstallation
  \/ deleteInstallation

SpecStore == InitStore /\ [][NextStore]_vars

----------------------------------------------------------------------------
(* Two listeners of the app that run beside each other: handle_feedback of  *)
(* src/listeners/actions/feedback.js:6-42 and assistantThreadStarted of     *)
(* src/unnamed/part_003:20-79.  `fb.log` and `started.log` are the          *)
(* histories of the calls each one makes, with their outcomes.              *)

\* the first element of body.actions: a feedback button carries a value,
\* another element of the block need not
FeedbackActions ==
  {[action_id |-> "feedback", value |-> "good-feedback"],
   [action_id |-> "feedback", value |-> "bad-feedback"],
   [action_id |-> "feedback"]}

\* the interactivity payloads of a message that carries the feedback block
FeedbackBodies ==
  [type : {"block_actions", "message_action"}, actions : {<<a>> : a \in FeedbackActions}]

GladText == "We're glad you found this useful."

SorryText ==
  "Sorry to hear that response wasn't up to par :slightly_frowning_face: Starting a new chat may help with AI mistakes and hallucinations."

FeedbackTextGlad(value) == GladText

\* feedback.js:23-37
FeedbackText(value) ==
  IF value = "good-feedback" THEN GladText ELSE SorryText

\* feedback.js:10-21: the payload gets an answer
Answered(body) ==
  body.type = "block_actions" /\ "value" \in DOMAIN body.actions[1]

NotStarted == [pc |-> "idle", log |-> <<>>]

InitListeners ==
  /\ InitTurn
  /\ cancelled = FALSE
  /\ parked = NoTurn
  /\ roll = NoRoll
  /\ ext = Off
  /\ oauth = Off
  /\ summ = Off
  /\ store = Off
  /\ fb = NotStarted
  /\ started = NotStarted

FeedbackFrame == UNCHANGED <<turnVars, cancelled, parked, roll, ext, oauth, summ, store, started>>

\* feedback.js:6
FeedbackReceive ==
  /\ fb.pc = "idle"
  /\ \E body \in FeedbackBodies : fb' = [fb EXCEPT !.pc = "ack"] @@ [body |-> body]
  /\ FeedbackFrame

\* feedback.js:8-21, and the catch of 39-41 when ack rejects
FeedbackAck ==
  /\ fb.pc = "ack"
  /\ \/ fb' = [fb EXCEPT !.log = Append(@, [call |-> "ack", ok |-> TRUE]),
                         !.pc = IF Answered(fb.body) THEN "post" ELSE "done"]
     \/ fb' = [fb EXCEPT !.log = @ \o <<[call |-> "ack", ok |-> FALSE], [logger |-> "error"]>>,
                         !.pc = "done"]
  /\ FeedbackFrame

\* feedback.js:23-38, and the catch of 39-41 when the post rejects
FeedbackPost ==
  /\ fb.pc = "post"
  /\ LET post == [call |-> "postEphemeral", text |-> FeedbackText(fb.body.actions[1].value)]
     IN  \/ fb' = [fb EXCEPT !.log = Append(@, post @@ [ok |-> TRUE]), !.pc = "done"]
         \/ fb' = [fb EXCEPT !.log = @ \o <<post @@ [ok |-> FALSE], [logger |-> "error"]>>,
                             !.pc = "done"]
  /\ FeedbackFrame

\* event.assistant_thread.context of assistant_thread_started: the channel
\* the container was opened in, if any
StartContexts == {[channel_id |-> NotDefined], [channel_id |-> ""], [channel_id |-> "C7"]}

GeneralPrompts ==
  [title |-> "Start with this suggested prompt:",
   prompts |-> <<"This is a suggested prompt">>]

ChannelPrompts ==
  [title |-> "Perform an action based on the channel",
   prompts |-> <<"Summarize channel">>]

SuggestedPromptsGeneral(context) == GeneralPrompts

\* part_003:44-75: `if (!context.channel_id)` and `if (context.channel_id)`
SuggestedPrompts(context) ==
  IF Falsy(context.channel_id) THEN GeneralPrompts ELSE ChannelPrompts

StartedFrame == UNCHANGED <<turnVars, cancelled, parked, roll, ext, oauth, summ, store, fb>>

\* an awaited call inside the try of part_003:23-78: a rejection goes to
\* `logger.error(e)` and the listener returns
StartedAwait(at, entry, next) ==
  /\ started.pc = at
  /\ \/ started' = [started EXCEPT !.log = Append(@, entry @@ [ok |-> TRUE]), !.pc = next]
     \/ started' = [started EXCEPT
          !.log = @ \o <<entry @@ [ok |-> FALSE], [logger |-> "error"]>>,
          !.pc = "done"]
  /\ StartedFrame

\* part_003:20-21
ThreadStartedReceive ==
  /\ started.pc = "idle"
  /\ \E context \in StartContexts :
       started' = [started EXCEPT !.pc = "say"] @@ [context |-> context]
  /\ StartedFrame

\* part_003:32
ThreadStartedSay ==
  StartedAwait("say", [call |-> "say", text |-> "Hi, how can I help?"], "save")

\* part_003:34
ThreadStartedSave == StartedAwait("save", [call |-> "saveThreadContext"], "prompts")

\* part_003:44-75
ThreadStartedPrompts ==
  StartedAwait("prompts",
               [call |-> "setSuggestedPrompts", arg |-> SuggestedPrompts(started.context)],
               "done")

NextListeners ==
  \/ FeedbackReceive
  \/ FeedbackAck
  \/ FeedbackPost
  \/ ThreadStartedReceive
  \/ ThreadStartedSay
  \/ ThreadStartedSave
  \/ ThreadStartedPrompts

SpecListeners == InitListeners /\ [][NextListeners]_vars

\* Every await of a turn settles: the promise resolves or rejects, and the
\* event loop then runs the continuation.
LiveSpec == Spec /\ WF_vars(Next)

----------------------------------------------------------------------------
(* Readings of the histories, used to state the properties.                 *)

IsCallEvent(event) ==
  event.type = "response.output_item.done" /\ event.item.type = "function_call"

IsDeltaEvent(event) == event.type = "response.output_text.delta"

\* the function_call items that arrived in cycle k, in arrival order
CallsOf(k) ==
  LET found == SelectSeq(events, LAMBDA r : r.cycle = k /\ IsCallEvent(r.event))
  IN [i \in 1..Len(found) |-> found[i].event.item]

\* the text fragments that arrived, in arrival order
DeltasArrived ==
  LET found == SelectSeq(events, LAMBDA r : IsDeltaEvent(r.event))
  IN [i \in 1..Len(found) |-> found[i].event.delta]

\* the texts callLlm passed to streamer.append({ markdown_text }), in call order
TextsAppended ==
  LET found == SelectSeq(sink, LAMBDA c :
                 c.op = "append" /\ Len(c.chunks) = 1 /\ c.chunks[1].type = "markdown_text")
  IN [i \in 1..Len(found) |-> found[i].chunks[1].text]

RECURSIVE Concat(_)
Concat(texts) == IF texts = <<>> THEN "" ELSE Head(texts) \o Concat(Tail(texts))

\* the call ids rollDice was invoked for in cycle k, in order
ExecutedIn(k) ==
  LET found == SelectSeq(executed, LAMBDA e : e.cycle = k)
  IN [i \in 1..Len(found) |-> found[i].call_id]

\* `entries` is exactly one function_call / function_call_output pair per
\* call of `calls`, in the order of `calls`
IsPairsOf(entries, calls) ==
  /\ Len(entries) = 2 * Len(calls)
  /\ \A i \in 1..Len(calls) :
       /\ entries[2 * i - 1].type = "function_call"
       /\ entries[2 * i - 1].call_id = calls[i].call_id
       /\ entries[2 * i - 1].arguments = calls[i].arguments
       /\ entries[2 * i].type = "function_call_output"
       /\ entries[2 * i].call_id = calls[i].call_id

\* the type of a transcript entry; a role-tagged message has none
EntryType(entry) == IF "type" \in DOMAIN entry THEN entry.type ELSE "message"

\* the transcript has a function_call_output for the call id
HasOutput(transcript, id) ==
  \E i \in 1..Len(transcript) :
    EntryType(transcript[i]) = "function_call_output" /\ transcript[i].call_id = id

\* the transcript has a function_call entry for the call id
HasCallEntry(transcript, id) ==
  \E i \in 1..Len(transcript) :
    EntryType(transcript[i]) = "function_call" /\ transcript[i].call_id = id

\* the task updates the streamer accepted, in order
RECURSIVE TasksShown(_)
TasksShown(calls) ==
  IF calls = <<>> THEN <<>>
  ELSE (IF Head(calls).ok
        THEN SelectSeq(Head(calls).chunks, LAMBDA c : c.type = "task_update")
        ELSE <<>>) \o TasksShown(Tail(calls))

\* the status the streamer shows for a task id: that of its last update
ShownStatus(id) ==
  LET mine == SelectSeq(TasksShown(sink), LAMBDA c : c.id = id)
  IN IF mine = <<>> THEN "none" ELSE mine[Len(mine)].status

TaskIds == {TasksShown(sink)[i].id : i \in 1..Len(TasksShown(sink))}

\* the parsed arguments of the call with this call id
ArgsOfCall(id) ==
  LET hit == SelectSeq(events, LAMBDA r :
               IsCallEvent(r.event) /\ r.event.item.call_id = id)
  IN JSONparse(hit[1].event.item.arguments)

\* the arguments break a constraint of the dice tool
Violates(args) ==
  /\ args.kind = "object"
  /\ Less(SidesOf(args), 2) \/ Less(CountOf(args), 1)

\* the function_call_output entry of the transcript for the call id
OutputOf(transcript, id) ==
  LET hit == SelectSeq(transcript, LAMBDA e :
               EntryType(e) = "function_call_output" /\ e.call_id = id)
  IN hit[1]

\* the call ids of the roll_dice calls that arrived in cycle k, in order
DiceCallsOf(k) ==
  LET found == SelectSeq(CallsOf(k), LAMBDA c : c.name = "roll_dice")
  IN [i \in 1..Len(found) |-> found[i].call_id]

\* the stream of the first cycle was consumed to its end
FirstStreamEnded ==
  /\ Len(opened) >= 1
  /\ opened[1].ok
  /\ \/ Len(opened) > 1
     \/ ~streamOpen /\ thrown # "StreamError"

----------------------------------------------------------------------------
\* C1: when the stream of a cycle held N >= 1 function calls (of any name),
\* every one of them was executed in that cycle, and the input of
\* the next streaming completion is the previous input followed by exactly
\* one function_call / function_call_output pair per call, in arrival order.
C1_BatchThenPairs ==
  \A k \in 1..(Len(opened) - 1) :
    LET calls == CallsOf(k)
        before == opened[k].input
        after == opened[k + 1].input
    IN Len(calls) >= 1 =>
         /\ ExecutedIn(k) = [i \in 1..Len(calls) |-> calls[i].call_id]
         /\ Len(after) = Len(before) + 2 * Len(calls)
         /\ SubSeq(after, 1, Len(before)) = before
         /\ IsPairsOf(SubSeq(after, Len(before) + 1, Len(after)), calls)

\* C2: when the stream of the first cycle ended without any function call,
\* one streaming completion was requested, the texts appended to the sink are
\* the non-empty deltas in arrival order and concatenate to the concatenation
\* of the deltas, rollDice was never called, the transcript is the one
\* passed in, and callLlm has returned to the handler (which stops the stream).
C2_NoCallsOneCycle ==
  (FirstStreamEnded /\ CallsOf(1) = <<>>) =>
    /\ Len(opened) = 1
    /\ TextsAppended = SelectSeq(DeltasArrived, LAMBDA d : d # "")
    /\ Concat(TextsAppended) = Concat(DeltasArrived)
    /\ \A i \in 1..Len(sink) : sink[i].op = "append" => sink[i].ok
    /\ executed = <<>>
    /\ prompts = opened[1].input
    /\ \/ pc = "stop" /\ thrown = "none"
       \/ pc \in {"done", "catch", "rejected"} /\ sink[Len(sink)].op = "stop"

\* C2 witness: a first stream of three deltas, one of them empty, ended and
\* the turn completed.
C2_Witness ==
  /\ FirstStreamEnded
  /\ CallsOf(1) = <<>>
  /\ DeltasArrived = <<"b", "", "a">>
  /\ pc = "done"
  /\ thrown = "none"

\* C3: once the next streaming completion is requested, the transcript holds
\* a function_call entry and a function_call_output entry for every call of
\* the previous cycle whose tool is not registered.
C3_UnknownToolAnswered ==
  \A k \in 1..(Len(opened) - 1) :
    \A i \in 1..Len(CallsOf(k)) :
      LET call == CallsOf(k)[i] IN
      call.name # "roll_dice" =>
        /\ HasCallEntry(opened[k + 1].input, call.call_id)
        /\ HasOutput(opened[k + 1].input, call.call_id)

\* C4: a roll_dice call whose arguments do not parse makes no exception
\* leave callLlm, and a function_call_output for it is in the transcript
\* once the next streaming completion is requested.
C4_BadArgumentsAbsorbed ==
  /\ thrown # "SyntaxError"
  /\ \A k \in 1..(Len(opened) - 1) :
       \A i \in 1..Len(CallsOf(k)) :
         LET call == CallsOf(k)[i] IN
         (call.name = "roll_dice" /\ JSONparse(call.arguments).kind = "SyntaxError") =>
           HasOutput(opened[k + 1].input, call.call_id)

\* C5: a call whose executor throws makes no exception leave callLlm: the
\* transcript holds a function_call_output for it.
C5_ExecutorErrorAbsorbed ==
  \A i \in 1..Len(executed) :
    LET hit == SelectSeq(events, LAMBDA r :
                 IsCallEvent(r.event) /\ r.event.item.call_id = executed[i].call_id)
    IN rollDiceThrows(JSONparse(hit[1].event.item.arguments)) =>
         /\ thrown # "RangeError"
         /\ HasOutput(prompts, executed[i].call_id)

\* C6: when a streaming completion request fails, in the first cycle or in a
\* recursive one, it is the last request of the turn, rollDice is not called
\* afterwards, the handler never stops the streamer, and it ends in its
\* catch block: one logged error and one error message.
C6_OpenFailureIsFatal ==
  \A k \in 1..Len(opened) :
    ~opened[k].ok =>
      /\ k = Len(opened)
      /\ \A i \in 1..Len(executed) : executed[i].cycle < k
      /\ \A i \in 1..Len(sink) : sink[i].op # "stop"
      /\ thrown = "BackendConnectionError"
      /\ pc \in {"catch", "done", "rejected"}
      /\ pc # "catch" => (logged = <<"BackendConnectionError">> /\ Len(said) = 1)

\* C6 witness: the request of the second cycle failed after a roll, and the
\* app_mention handler finished through its catch block.
C6_Witness ==
  /\ handler = "app_mention"
  /\ Len(opened) = 2
  /\ ~opened[2].ok
  /\ Len(executed) = 1
  /\ pc = "done"

\* C7: when a turn that called callLlm has ended through a failure, no task
\* the streamer showed as in_progress is still shown so, and the error
\* message was sent.
C7_NoTaskLeftInProgress ==
  (pc \in {"done", "rejected"} /\ thrown # "none" /\ Len(opened) >= 1) =>
    /\ \A id \in TaskIds : ShownStatus(id) # "in_progress"
    /\ Len(said) = 1

\* C8: rollDice is called for a call of cycle k only when the stream of
\* cycle k has ended and before the streaming completion of cycle k + 1 is
\* requested.
C8_ExecutionAfterStream ==
  /\ streamOpen => \A i \in 1..Len(executed) : executed[i].cycle < Cycle
  /\ \A i \in 1..Len(executed) :
       /\ executed[i].cycle <= Cycle
       /\ \E j \in 1..Len(CallsOf(executed[i].cycle)) :
            CallsOf(executed[i].cycle)[j].call_id = executed[i].call_id

\* C8 witness: two calls of the first cycle were executed and the second
\* cycle is streaming.
C8_Witness ==
  /\ Len(ExecutedIn(1)) = 2
  /\ Cycle = 2
  /\ streamOpen
  /\ pc = "stream"

\* C9 as stated: the texts appended to the sink are the deltas of all the
\* text-delta events, in arrival order.
C9_EveryDeltaAppended == TextsAppended = DeltasArrived

\* C9 amended: the texts appended to the sink are the non-empty deltas, each
\* once, in arrival order, and the append is made before the next event is
\* consumed.
C9_NonEmptyDeltasAppended ==
  TextsAppended = SelectSeq(DeltasArrived, LAMBDA d : d # "")

\* C9 witness: deltas arrived in two cycles, an empty one among them.
C9_Witness ==
  /\ Len(events) = 3
  /\ events[1].event = [type |-> "response.output_item.done",
                        item |-> [type |-> "function_call", id |-> "fc_call_1",
                                  call_id |-> "call_1", name |-> "roll_dice",
                                  arguments |-> "{\"sides\":2,\"count\":1}"]]
  /\ events[2].cycle = 2
  /\ DeltasArrived = <<"", "b">>
  /\ TextsAppended = <<"b">>
  /\ thrown = "none"
  /\ pc = "done"

\* C10: for every function call item consumed from a stream, the sink was
\* sent a task update whose id is the call id of the item.
C10_EveryCallAnnounced ==
  \A r \in 1..Len(events) :
    IsCallEvent(events[r].event) =>
      \E i \in 1..Len(sink) :
        \E c \in 1..Len(sink[i].chunks) :
          /\ sink[i].chunks[c].type = "task_update"
          /\ sink[i].chunks[c].id = events[r].event.item.call_id

\* C11: once the next streaming completion is requested, every call
\* collected in the previous cycle has exactly one task update after its
\* in_progress update, with status error when its arguments break a
\* constraint and complete otherwise.
C11_OneResultUpdatePerCall ==
  \A k \in 1..(Len(opened) - 1) :
    \A i \in 1..Len(CallsOf(k)) :
      LET id == CallsOf(k)[i].call_id
          mine == SelectSeq(TasksShown(sink), LAMBDA c : c.id = id)
      IN /\ Len(mine) = 2
         /\ mine[1].status = "in_progress"
         /\ mine[2].status = IF Violates(ArgsOfCall(id)) THEN "error" ELSE "complete"

\* C12: for every executed roll_dice call whose arguments break a constraint
\* (sides < 2 or count < 1), the reason of the tool is the error of the
\* function_call_output pushed for its call id and the title of the error
\* task update sent for its call id.
C12_ReasonVerbatim ==
  \A i \in 1..Len(executed) :
    LET id == executed[i].call_id
        args == ArgsOfCall(id)
        reason == IF Less(args.sides, 2) THEN "A die must have at least 2 sides"
                  ELSE "Must roll at least 1 die"
    IN Violates(args) =>
         /\ HasOutput(prompts, id)
         /\ OutputOf(prompts, id).output = JSONstringify(
              [error |-> reason, rolls |-> <<>>, total |-> 0])
         /\ \E j \in 1..Len(sink) :
              sink[j].chunks = <<[type |-> "task_update", id |-> id,
                                  title |-> reason, status |-> "error"]>>

\* C12 witness: a call with sides < 2 and a call with count < 1 were both
\* executed and the turn completed.
C12_Witness ==
  /\ Len(executed) = 2
  /\ Less(ArgsOfCall(executed[1].call_id).sides, 2)
  /\ Less(ArgsOfCall(executed[2].call_id).count, 1)
  /\ pc = "done"
  /\ thrown = "none"

\* C13 (state part): when the next streaming completion is requested, every
\* roll_dice call of the previous cycle was executed, and the input holds the
\* error result of each one that broke a constraint.
C13_FailureInNextInput ==
  \A k \in 1..(Len(opened) - 1) :
    /\ ExecutedIn(k) = DiceCallsOf(k)
    /\ \A i \in 1..Len(DiceCallsOf(k)) :
         LET id == DiceCallsOf(k)[i] IN
         Violates(ArgsOfCall(id)) =>
           /\ HasOutput(opened[k + 1].input, id)
           /\ HasError(OutputOf(opened[k + 1].input, id).output.json)

\* C13 (step part): the step that produces an error result and reports it to
\* the sink goes on to the next call of the batch.
C13_FailureStepGoesOn ==
  (/\ Len(executed') = Len(executed) + 1
   /\ Violates(ArgsOfCall(executed'[Len(executed')].call_id))
   /\ sink'[Len(sink')].ok)
    => /\ pc' = "exec"
       /\ execIdx' = execIdx + 1
       /\ thrown' = "none"

\* C13: a roll_dice call that returns an error result does not stop the loop:
\* the batch goes on after it, and the next streaming completion is requested
\* with a transcript that holds the failure.
C13_FailedResultDoesNotStop ==
  []C13_FailureInNextInput /\ [][C13_FailureStepGoesOn]_vars

\* C13 witness: the first call of a batch failed, the second was executed,
\* and the second streaming completion was requested.
C13_Witness ==
  /\ Len(opened) = 2
  /\ Len(ExecutedIn(1)) = 2
  /\ Violates(ArgsOfCall(ExecutedIn(1)[1]))
  /\ ~Violates(ArgsOfCall(ExecutedIn(1)[2]))
  /\ opened[2].ok

\* callLlm has returned to the handler without throwing
Returned ==
  /\ Len(opened) >= 1
  /\ \/ pc = "stop"
     \/ \E j \in 1..Len(sink) : sink[j].op = "stop"

\* an operation of the turn has failed
Failed == thrown # "none"

\* the cycles that collected at least one call
CyclesWithCalls == {k \in 1..Len(opened) : CallsOf(k) # <<>>}

\* C14 (state part): callLlm has returned exactly when the stream of the
\* current cycle ended with no call collected; every request before was
\* accepted, and the number of requests is 1 plus the number of cycles that
\* collected a call.
C14_ReturnsAtEmptyCycle ==
  /\ Returned =>
       /\ CallsOf(Cycle) = <<>>
       /\ \A k \in 1..Len(opened) : opened[k].ok
       /\ Len(opened) = 1 + Cardinality(CyclesWithCalls)
  /\ (/\ Len(opened) >= 1
      /\ opened[Cycle].ok
      /\ ~streamOpen
      /\ ~Failed
      /\ CallsOf(Cycle) = <<>>) => Returned

\* C14: callLlm returns exactly when a cycle's stream ends with no pending
\* call, with 1 + (cycles that collected a call) requests made; and once
\* callLlm was entered, it returns unless an operation fails.
C14_TerminatesAtEmptyCycle ==
  /\ []C14_ReturnsAtEmptyCycle
  /\ (Len(opened) >= 1) ~> (Returned \/ Failed)

\* C14 witness: two cycles collected calls, the third collected none, and
\* callLlm returned after three requests.
C14_Witness ==
  /\ Returned
  /\ Len(opened) = 3
  /\ Cardinality(CyclesWithCalls) = 2
  /\ ~Failed

\* the function_call items of the executed calls, in execution order
ExecutedCalls ==
  [i \in 1..Len(executed) |->
     LET hit == SelectSeq(events, LAMBDA r :
                  IsCallEvent(r.event) /\ r.event.item.call_id = executed[i].call_id)
     IN hit[1].event.item]

\* C16 (as claimed): after callLlm returns, the array the caller passed as
\* prompts has the same length and entries as when callLlm was called.
C16_CallerArrayUntouched ==
  Returned => prompts = opened[1].input

\* C16 (amended): after callLlm returns, the caller's array is the entries it
\* held at the call, unchanged and in place, followed by one function_call /
\* function_call_output pair per executed roll_dice call, in execution order.
C16_CallerArrayExtended ==
  Returned =>
    LET before == Len(opened[1].input) IN
    /\ Len(prompts) = before + 2 * Len(executed)
    /\ SubSeq(prompts, 1, before) = opened[1].input
    /\ IsPairsOf(SubSeq(prompts, before + 1, Len(prompts)), ExecutedCalls)
    /\ prompts = opened[Cycle].input

\* C16 witness: callLlm returned after a cycle that executed two calls.
C16_Witness ==
  /\ Returned
  /\ Len(executed) = 2
  /\ Len(prompts) = Len(opened[1].input) + 4

\* the positions of the sink history that are calls of streamer.stop
StopCalls == {j \in 1..Len(sink) : sink[j].op = "stop"}

\* C18: streamer.stop is called at most once in a turn, it is the last call
\* the streamer receives, and in a turn that ran callLlm it is made only
\* after callLlm returned: no stream open, no call of the last cycle pending.
C18_StopOnceAndLast ==
  /\ Cardinality(StopCalls) <= 1
  /\ \A j \in StopCalls : j = Len(sink)
  /\ (StopCalls # {} /\ Len(opened) >= 1) =>
       /\ pc \in {"done", "catch", "rejected"}
       /\ ~streamOpen
       /\ CallsOf(Cycle) = <<>>
       /\ \A k \in 1..(Len(opened) - 1) : ExecutedIn(k) = DiceCallsOf(k)

\* C18 witness: the handler stopped the streamer after a turn of two cycles
\* with text and a task update in the sink.
C18_Witness ==
  /\ StopCalls # {}
  /\ Len(opened) = 2
  /\ Len(sink) >= 3
  /\ pc = "done"

\* a streamer.append issued by callLlm was rejected
AppendFailed ==
  /\ Len(opened) >= 1
  /\ \E j \in 1..Len(sink) : sink[j].op = "append" /\ ~sink[j].ok

\* C19 (state part): a rejected append of callLlm is the last call the sink
\* receives; its error is what the handler catches and logs, and only a
\* failure of the apology itself can end the handler with a rejection.
C19_FailureCaught ==
  AppendFailed =>
    /\ ~sink[Len(sink)].ok
    /\ \A j \in 1..(Len(sink) - 1) : sink[j].ok
    /\ thrown = "SinkError"
    /\ pc \in {"catch", "done", "rejected"}
    /\ pc # "catch" => (logged = <<"SinkError">> /\ Len(said) = 1)
    /\ pc = "rejected" => ~said[1].ok

\* C19 (step part): after a rejected append no sink call, tool execution,
\* backend request or stream event follows.
C19_NothingAfterFailure ==
  AppendFailed => UNCHANGED <<sink, executed, opened, events>>

\* C19: a rejected sink append is not retried and ends the turn's output,
\* tool executions and backend calls; the handler catches and logs it.
C19_SinkFailureEndsTurn ==
  []C19_FailureCaught /\ [][C19_NothingAfterFailure]_vars

\* C19 witness: the result update of an executed call was rejected after an
\* accepted text append, and the handler finished after logging it.
C19_Witness ==
  /\ AppendFailed
  /\ Len(executed) = 1
  /\ Len(sink) >= 3
  /\ pc = "done"
  /\ logged = <<"SinkError">>

\* callLlm is running: between its entry and its return or throw
InCallLlm == pc \in {"open", "stream", "exec"}

\* C15: once the request is cancelled, no step of callLlm requests a
\* streaming completion, executes a tool or issues a sink call.
C15_NothingNewAfterCancel ==
  [][(cancelled /\ InCallLlm) => UNCHANGED <<opened, executed, sink>>]_vars

\* v is an integer >= k
AtLeast(v, k) == v.t = "huge" \/ (v.t = "number" /\ v.n >= k)

\* C20: for integer sides >= 2 and count >= 1, rollDice returns count rolls,
\* each in 1..sides, their sum as total, the description
\* "Rolled a {count}d{sides} to total {total}", and no error field.
C20_ValidRollReturns ==
  (/\ roll.phase \in {"returned", "threw"}
   /\ AtLeast(roll.args.sides, 2)
   /\ AtLeast(roll.args.count, 1)) =>
    /\ roll.phase = "returned"
    /\ Len(roll.result.rolls) = roll.args.count.n
    /\ \A i \in 1..Len(roll.result.rolls) :
         roll.result.rolls[i] \in 1..roll.args.sides.n
    /\ roll.result.total = Sum(roll.result.rolls)
    /\ roll.result.description =
         "Rolled a " \o ToString(roll.args.count.n) \o "d" \o ToString(roll.args.sides.n)
         \o " to total " \o ToString(roll.result.total)
    /\ ~HasError(roll.result)

\* the call ids of the function calls in a sequence of consumed events
CallIdsIn(consumed) ==
  {consumed[i].event.item.call_id :
     i \in {j \in 1..Len(consumed) : IsCallEvent(consumed[j].event)}}

\* the call ids the running turn received, and those the other turn received
OwnIds == CallIdsIn(events)
OtherIds == CallIdsIn(OtherEvents)

\* the roll_dice calls whose in_progress update was sent, dice.js:109-121
Announced ==
  SelectSeq(events, LAMBDA r : IsCallEvent(r.event) /\ Dispatches(r.event.item.name))

\* C17: with two turns interleaved at their awaits, the running turn's
\* pending-calls list is the calls of its own current cycle; every call id
\* in its transcript, its executions and its sink is one it received itself
\* and none the other turn received; the texts in its sink are its own
\* non-empty deltas in order; and when it ends without a failure its
\* transcript and sink history are what its own streams alone determine:
\* the user message followed by one pair per executed call, and one sink
\* call per text, per announced call and per executed call, then the stop.
C17_TurnsIsolated ==
  /\ OwnIds \cap OtherIds = {}
  /\ Len(opened) >= 1 => toolCalls = CallsOf(Cycle)
  /\ \A i \in 1..Len(executed) : executed[i].call_id \in OwnIds
  /\ \A i \in 1..Len(prompts) :
       IF i = 1 THEN prompts[i] = [role |-> "user", content |-> message.text]
       ELSE prompts[i].call_id \in OwnIds
  /\ TaskIds \subseteq OwnIds
  /\ TextsAppended = SelectSeq(DeltasArrived, LAMBDA d : d # "")
  /\ (pc = "done" /\ ~Failed) =>
       /\ IsPairsOf(SubSeq(prompts, 2, Len(prompts)), ExecutedCalls)
       /\ Len(sink) = Len(TextsAppended) + Len(Announced) + Len(executed) + 1
       /\ sink[Len(sink)].op = "stop"

\* C17 witness: one turn is suspended in the middle of its stream with a
\* call collected, while the other turn collected a call of its own,
\* executed it, and ended.
C17_Witness ==
  /\ parked # NoTurn
  /\ parked.pc = "stream"
  /\ Len(parked.toolCalls) = 1
  /\ Len(executed) = 1
  /\ pc = "done"
  /\ ~Failed

\* the call of rollDice has ended, by a return or by an exception
RollEnded == roll.phase \in {"returned", "threw"}

\* C21: for sides < 2 or count < 1, rollDice raises no exception and returns
\* rolls = [], total = 0 and a non-empty error string.
C21_ViolationReturnsError ==
  (RollEnded /\ (Less(roll.args.sides, 2) \/ Less(roll.args.count, 1))) =>
    /\ roll.phase = "returned"
    /\ roll.result.rolls = <<>>
    /\ roll.result.total = 0
    /\ HasError(roll.result)
    /\ roll.result.error # ""

\* C21 witness: rollDice returned for sides >= 2 and count < 1.
C21_Witness ==
  /\ roll.phase = "returned"
  /\ AtLeast(roll.args.sides, 2)
  /\ Less(roll.args.count, 1)

\* C29: rollDice answers sides < 2 with "A die must have at least 2 sides",
\* also when count < 1 holds too, and count < 1 alone with
\* "Must roll at least 1 die".
C29_MessagesAndPrecedence ==
  roll.phase = "returned" =>
    /\ Less(SidesOf(roll.args), 2) =>
         (HasError(roll.result)
            /\ roll.result.error = "A die must have at least 2 sides")
    /\ (~Less(SidesOf(roll.args), 2) /\ Less(CountOf(roll.args), 1)) =>
         (HasError(roll.result) /\ roll.result.error = "Must roll at least 1 die")

\* C29 witness: rollDice returned for sides < 2 together with count < 1.
C29_Witness ==
  /\ roll.phase = "returned"
  /\ Less(roll.args.sides, 2)
  /\ Less(roll.args.count, 1)
  /\ HasError(roll.result)

\* the result holds n rolls, each in 1..faces
IsRolls(result, n, faces) ==
  /\ ~HasError(result)
  /\ Len(result.rolls) = n
  /\ \A i \in 1..Len(result.rolls) : result.rolls[i] \in 1..faces

\* C30: with no argument rollDice returns one roll in 1..6; with only
\* count = c (c >= 1) it returns c rolls in 1..6; with only sides = s
\* (s >= 2) it returns one roll in 1..s.
C30_DefaultsApplied ==
  RollEnded =>
    /\ (roll.args.sides = Undefined /\ roll.args.count = Undefined) =>
         (roll.phase = "returned" /\ IsRolls(roll.result, 1, 6))
    /\ (roll.args.sides = Undefined /\ AtLeast(roll.args.count, 1)) =>
         (roll.phase = "returned" /\ IsRolls(roll.result, roll.args.count.n, 6))
    /\ (roll.args.count = Undefined /\ AtLeast(roll.args.sides, 2)) =>
         (roll.phase = "returned" /\ IsRolls(roll.result, 1, roll.args.sides.n))

\* the arguments satisfy the constraints of the dice tool
ValidArgs(args) ==
  /\ args.kind = "object"
  /\ AtLeast(SidesOf(args), 2)
  /\ AtLeast(CountOf(args), 1)

\* the first stream ended having delivered exactly one function call, a
\* roll_dice call with valid arguments
OneValidRollFirst ==
  /\ FirstStreamEnded
  /\ Len(CallsOf(1)) = 1
  /\ CallsOf(1)[1].name = "roll_dice"
  /\ ValidArgs(JSONparse(CallsOf(1)[1].arguments))

\* every event of a later cycle is a text delta
OnlyTextAfterFirst ==
  \A i \in 1..Len(events) : events[i].cycle >= 2 => IsDeltaEvent(events[i].event)

\* the positions of the sink history that are text appends
TextPositions ==
  {j \in 1..Len(sink) : /\ sink[j].op = "append"
                        /\ Len(sink[j].chunks) = 1
                        /\ sink[j].chunks[1].type = "markdown_text"}

\* the positions of the sink history that set task `id` to complete
CompletePositions(id) ==
  {j \in 1..Len(sink) : /\ sink[j].op = "append"
                        /\ Len(sink[j].chunks) = 1
                        /\ sink[j].chunks[1].type = "task_update"
                        /\ sink[j].chunks[1].id = id
                        /\ sink[j].chunks[1].status = "complete"}

\* the number of non-empty text deltas of cycle k
TextsOf(k) ==
  Len(SelectSeq(events, LAMBDA r :
        r.cycle = k /\ IsDeltaEvent(r.event) /\ r.event.delta # ""))

\* a call to the Slack client or to the backend was rejected
EnvironmentFailed ==
  thrown \in {"StatusError", "BackendConnectionError", "StreamError", "SinkError"}

\* C22: when the first stream held exactly one valid roll_dice call and the
\* second stream only text, callLlm itself does not fail, the complete
\* update of the call is sent before any text of the second cycle, at most
\* two streaming completions are requested, and when the second stream has
\* ended callLlm has returned.
C22_RollThenAnswer ==
  (OneValidRollFirst /\ OnlyTextAfterFirst) =>
    /\ Failed => EnvironmentFailed
    /\ Len(opened) <= 2
    /\ \A j \in TextPositions :
         Cardinality({i \in TextPositions : i <= j}) > TextsOf(1) =>
           \E c \in CompletePositions(CallsOf(1)[1].call_id) : c < j
    /\ (Len(opened) = 2 /\ opened[2].ok /\ ~streamOpen /\ ~Failed) =>
         (Returned /\ CompletePositions(CallsOf(1)[1].call_id) # {})

\* `short` is an initial part of `long`
IsPrefix(short, long) ==
  /\ Len(short) <= Len(long)
  /\ SubSeq(long, 1, Len(short)) = short

\* C23 (state part): the input of each streaming completion starts with the
\* whole input of the one before it, and the transcript starts with the
\* input of the last one.
C23_InputsGrowByPrefix ==
  /\ \A k \in 1..(Len(opened) - 1) : IsPrefix(opened[k].input, opened[k + 1].input)
  /\ Len(opened) >= 1 => IsPrefix(opened[Cycle].input, prompts)

\* C23 (step part): no step removes, changes or reorders an entry of the
\* transcript.
C23_StepKeepsEntries == IsPrefix(prompts, prompts')

\* C23: the transcript is append-only during a callLlm run.
C23_AppendOnly ==
  []C23_InputsGrowByPrefix /\ [][C23_StepKeepsEntries]_vars

\* C23 witness: the third streaming completion was requested after two
\* cycles that each added a pair to the transcript.
C23_Witness ==
  /\ Len(opened) = 3
  /\ Len(opened[2].input) = Len(opened[1].input) + 2
  /\ Len(opened[3].input) = Len(opened[2].input) + 2

\* in the transcript every function_call is directly followed by the
\* function_call_output of the same call id, and every function_call_output
\* directly follows such a function_call
WellPaired(transcript) ==
  \A i \in 1..Len(transcript) :
    /\ EntryType(transcript[i]) = "function_call" =>
         /\ i < Len(transcript)
         /\ EntryType(transcript[i + 1]) = "function_call_output"
         /\ transcript[i + 1].call_id = transcript[i].call_id
    /\ EntryType(transcript[i]) = "function_call_output" =>
         /\ i > 1
         /\ EntryType(transcript[i - 1]) = "function_call"
         /\ transcript[i - 1].call_id = transcript[i].call_id

\* C24: the input of every streaming completion holds each function_call
\* together with its function_call_output, and no output without its call.
C24_InputsWellPaired ==
  \A k \in 1..Len(opened) : WellPaired(opened[k].input)

\* C24 witness: a streaming completion was requested with two pairs in its
\* input.
C24_Witness ==
  /\ Len(opened) = 2
  /\ Len(opened[2].input) = 5
  /\ opened[2].ok

\* C25: the input of the streaming completion requested after a cycle that
\* collected a call is longer than the input of that cycle's completion.
C25_RecursionExtendsInput ==
  \A k \in 1..(Len(opened) - 1) :
    CallsOf(k) # <<>> => Len(opened[k + 1].input) > Len(opened[k].input)

\* the executions of the call with this call id
ExecutionsOf(id) == SelectSeq(executed, LAMBDA e : e.call_id = id)

\* C28: the pending list holds nothing at the start of a cycle, and once
\* the next streaming completion is requested every call of the cycle
\* before was executed exactly once, in that cycle.
C28_EachCallExecutedOnce ==
  /\ (pc = "stream" /\ \A i \in 1..Len(events) : events[i].cycle # Cycle) =>
       toolCalls = <<>>
  /\ \A k \in 1..(Len(opened) - 1) :
       \A i \in 1..Len(CallsOf(k)) :
         LET mine == ExecutionsOf(CallsOf(k)[i].call_id)
         IN Len(mine) = 1 /\ mine[1].cycle = k

\* the items of the calls executed before cycle k, in execution order
ExecutedBefore(k) ==
  LET found == SelectSeq(ExecutedCalls, LAMBDA c : ExecutionsOf(c.call_id)[1].cycle < k)
  IN found

\* C27 (state part): every streaming completion was requested with the
\* declaration of roll_dice, the only tool there is, and with the whole
\* transcript of that moment: the user message, then one pair for every
\* call executed in the cycles before.
C27_FullRequest ==
  \A k \in 1..Len(opened) :
    /\ opened[k].tools = {"roll_dice"}
    /\ Len(opened[k].input) = 1 + 2 * Len(ExecutedBefore(k))
    /\ opened[k].input[1] = [role |-> "user", content |-> message.text]
    /\ IsPairsOf(SubSeq(opened[k].input, 2, Len(opened[k].input)), ExecutedBefore(k))

\* C27 (step part): a streaming completion is requested only by the step
\* that enters a cycle, which requests exactly one, with the transcript as
\* it is, and leaves the entry point.
C27_OneRequestPerEntry ==
  opened' # opened =>
    /\ pc = "open"
    /\ pc' # "open"
    /\ opened' = Append(opened, opened'[Len(opened')])
    /\ opened'[Len(opened')].input = prompts

\* C27: each entry into a cycle requests exactly one streaming completion,
\* with the full transcript and the full list of tool declarations.
C27_OneFullRequestPerCycle ==
  []C27_FullRequest /\ [][C27_OneRequestPerEntry]_vars

\* C27 witness: the second streaming completion was requested with the user
\* message and the pairs of two executed calls.
C27_Witness ==
  /\ Len(opened) = 2
  /\ Len(ExecutedBefore(2)) = 2
  /\ Len(opened[2].input) = 5

\* C26: callLlm never returns from a cycle that collected a call, and
\* whatever the depth K, a K-th cycle that collected a call is followed by
\* a (K+1)-th streaming completion, unless the Slack client or the backend
\* fails.
C26_NoDepthLimit ==
  /\ [](Returned => CallsOf(Cycle) = <<>>)
  /\ \A K \in 1..MaxEvents :
       (Len(opened) = K /\ CallsOf(K) # <<>>)
         ~> (Len(opened) > K \/ EnvironmentFailed)

\* C31: extractThreadInfo throws whenever the channel id or the thread
\* timestamp of the payload is missing, one of them or both, and otherwise
\* returns the channel id, the thread timestamp and the context.
C31_ThrowsWhenMissing ==
  ext.pc = "ended" =>
    IF Falsy(ChannelIdOf(ext.payload)) \/ Falsy(ThreadTsOf(ext.payload))
    THEN ext.outcome.kind = "throw"
    ELSE /\ ext.outcome.kind = "return"
         /\ ext.outcome.channelId = ChannelIdOf(ext.payload)
         /\ ext.outcome.threadTs = ThreadTsOf(ext.payload)
         /\ ext.outcome.context = ContextOf(ext.payload)

\* the positions of the log of the oauth listener where setStatus was
\* called with this status
StatusCalls(text) ==
  {i \in 1..Len(oauth.log) :
     /\ "call" \in DOMAIN oauth.log[i]
     /\ oauth.log[i].call = "setStatus"
     /\ oauth.log[i].status = text}

\* the listener of app-oauth.js has finished, by returning or by throwing
OAuthFinished == oauth.pc \in {"done", "rejected"}

\* C32: when the oauth listener has finished after it set the status
\* 'is typing..', it has called setStatus with '' after that.
C32_StatusAlwaysCleared ==
  OAuthFinished =>
    \A i \in StatusCalls("is typing..") :
      oauth.log[i].ok => \E j \in StatusCalls("") : j > i

\* the positions of the log where the unawaited reply settled successfully
ReplyCompleted ==
  {i \in 1..Len(oauth.log) :
     /\ "settled" \in DOMAIN oauth.log[i]
     /\ oauth.log[i].settled = "postMessage"
     /\ oauth.log[i].ok}

\* C33: in the prompt path the status is cleared only after the reply post
\* has completed.
C33_ClearAfterReply ==
  (oauth.pc # "idle" /\ "message" \in DOMAIN oauth /\ IsPrompt(oauth.message.text)) =>
    \A j \in StatusCalls("") : \E i \in ReplyCompleted : i < j

\* the positions of the log of the summarize listener where this call was made
SummCalls(name) ==
  {i \in 1..Len(summ.log) :
     "call" \in DOMAIN summ.log[i] /\ summ.log[i].call = name}

SummFinished == summ.pc \in {"done", "rejected"}

\* the first conversations.history was rejected with this Slack error
HistoryFailedWith(code) ==
  \E i \in SummCalls("conversations.history") :
    /\ \A k \in SummCalls("conversations.history") : i <= k
    /\ ~summ.log[i].ok
    /\ "data" \in DOMAIN summ.log[i].error
    /\ summ.log[i].error.data.error = code

\* the first conversations.history was rejected
HistoryFailed ==
  \E i \in SummCalls("conversations.history") :
    (\A k \in SummCalls("conversations.history") : i <= k) /\ ~summ.log[i].ok

\* a failure case of the summarize listener: a call was rejected, other
\* than a conversations.history rejected with not_in_channel, which the
\* join and the retry make up for, or there was no saved thread context
SummFailed ==
  \/ \E i \in 1..Len(summ.log) :
       /\ "ok" \in DOMAIN summ.log[i]
       /\ ~summ.log[i].ok
       /\ ~ /\ "error" \in DOMAIN summ.log[i]
            /\ "data" \in DOMAIN summ.log[i].error
            /\ summ.log[i].error.data.error = "not_in_channel"
  \/ /\ "threadContext" \in DOMAIN summ
     /\ summ.threadContext = "null"
     /\ summ.pc # "history"

\* after not_in_channel: one join after the failed call, and, when the join
\* succeeded, one retry after the join and no further one
JoinThenRetryOnce ==
  (SummFinished /\ HistoryFailedWith("not_in_channel")) =>
    /\ Cardinality(SummCalls("conversations.join")) = 1
    /\ \A j \in SummCalls("conversations.join") :
         /\ \E i \in SummCalls("conversations.history") : i < j
         /\ Cardinality({k \in SummCalls("conversations.history") : k > j})
              = IF summ.log[j].ok THEN 1 ELSE 0
    /\ Cardinality(SummCalls("conversations.history")) <= 2

\* after any other error of conversations.history: no join and no retry
NoJoinOtherwise ==
  (HistoryFailed /\ ~HistoryFailedWith("not_in_channel")) =>
    /\ SummCalls("conversations.join") = {}
    /\ Cardinality(SummCalls("conversations.history")) = 1

\* a join is only ever made after not_in_channel
JoinOnlyWhenNotInChannel ==
  SummCalls("conversations.join") # {} => HistoryFailedWith("not_in_channel")

NamedKey(arg) ==
  LET enterprise == IF "enterprise" \in DOMAIN arg THEN arg.enterprise ELSE arg.enterpriseId
      team == IF "team" \in DOMAIN arg THEN arg.team ELSE arg.teamId
  IN  IF arg.isEnterpriseInstall /\ enterprise # NotDefined THEN enterprise ELSE team

\* what the history of calls leaves under a key: the installation of the
\* last store under it, unless a delete of the key came later
RECURSIVE LastStored(_, _)
LastStored(ops, key) ==
  IF ops = <<>> THEN NoInstallation
  ELSE LET last == ops[Len(ops)]
       IN  IF last.op = "store" /\ NamedKey(last.arg) = key THEN last.arg
           ELSE IF last.op = "delete" /\ NamedKey(last.arg) = key THEN NoInstallation
           ELSE LastStored(SubSeq(ops, 1, Len(ops) - 1), key)

\* C35: every fetchInstallation that has a key returns the installation
\* most recently stored under that key, and nothing if the key was never
\* stored or was deleted after its last store; calls under other keys do
\* not count.
C35_FetchReturnsLastStored ==
  \A i \in 1..Len(store.ops) :
    LET call == store.ops[i]
    IN  (call.op = "fetch" /\ NamedKey(call.arg) # NotDefined) =>
          call.result = [kind |-> "return",
                         value |-> LastStored(SubSeq(store.ops, 1, i - 1), NamedKey(call.arg))]

\* a fetch returns an installation that was stored before a store and a
\* delete under the other key
C35_Witness ==
  /\ Len(store.ops) = 3
  /\ store.ops[1].op = "store"
  /\ store.ops[2].op \in {"store", "delete"}
  /\ store.ops[2].result.kind = "return"
  /\ NamedKey(store.ops[2].arg) # NamedKey(store.ops[1].arg)
  /\ store.ops[3].op = "fetch"
  /\ store.ops[3].result = [kind |-> "return", value |-> store.ops[1].arg]

\* the argument has no enterprise id that goes with isEnterpriseInstall and
\* no team id
CarriesNeither(arg) ==
  LET enterprise == IF "enterprise" \in DOMAIN arg THEN arg.enterprise ELSE arg.enterpriseId
      team == IF "team" \in DOMAIN arg THEN arg.team ELSE arg.teamId
  IN  ~(arg.isEnterpriseInstall /\ enterprise # NotDefined) /\ team = NotDefined

\* C36: a call of the installation store whose argument has neither an
\* enterprise id with isEnterpriseInstall nor a team id throws, and leaves
\* the stored installations as they were.
C36_ThrowsWithoutKey ==
  [][\A call \in [op : {"store", "fetch", "delete"}, arg : Installations \cup InstallQueries] :
       (/\ Len(store'.ops) = Len(store.ops) + 1
        /\ store'.ops = Append(store.ops, call @@ [result |-> store'.ops[Len(store'.ops)].result])
        /\ CarriesNeither(call.arg))
       => /\ store'.ops[Len(store'.ops)].result.kind = "throw"
          /\ store'.db = store.db]_vars

\* a store without a usable key was thrown back after an installation had
\* been stored
C36_Witness ==
  /\ Len(store.ops) >= 2
  /\ store.ops[1].op = "store"
  /\ store.ops[1].result.kind = "return"
  /\ store.ops[Len(store.ops)].op = "store"
  /\ store.ops[Len(store.ops)].result.kind = "throw"
  /\ store.ops[Len(store.ops)].arg.enterprise # NotDefined

\* the positions of a listener's log where this call was made
CallsIn(log, name) ==
  {i \in 1..Len(log) : "call" \in DOMAIN log[i] /\ log[i].call = name}

\* some call of the log was rejected
RejectedIn(log) ==
  \E i \in 1..Len(log) : "ok" \in DOMAIN log[i] /\ ~log[i].ok

\* the log ends with the error handed to logger.error
LoggedLast(log) == log # <<>> /\ log[Len(log)] = [logger |-> "error"]

\* C37: handle_feedback calls ack before anything else; once acknowledged it
\* posts one ephemeral message when the body is a block_actions payload
\* whose first action has a value, the glad text iff the value is
\* 'good-feedback' and the sorry text otherwise, and none in any other
\* case; a rejected ack or post is logged and the handler returns.
C37_FeedbackAckThenOnePost ==
  /\ fb.log # <<>> => fb.log[1].call = "ack"
  /\ fb.pc = "done" =>
       LET posts == CallsIn(fb.log, "postEphemeral")
           first == fb.body.actions[1]
       IN  /\ Cardinality(CallsIn(fb.log, "ack")) = 1
           /\ IF fb.log[1].ok /\ fb.body.type = "block_actions" /\ "value" \in DOMAIN first
              THEN /\ Cardinality(posts) = 1
                   /\ \A i \in posts :
                        /\ first.value = "good-feedback" <=> fb.log[i].text = GladText
                        /\ first.value # "good-feedback" <=> fb.log[i].text = SorryText
              ELSE posts = {}
           /\ RejectedIn(fb.log) <=> LoggedLast(fb.log)

\* a bad-feedback press was acknowledged and its post was rejected
C37_Witness ==
  /\ fb.pc = "done"
  /\ fb.body.type = "block_actions"
  /\ "value" \in DOMAIN fb.body.actions[1]
  /\ fb.body.actions[1].value = "bad-feedback"
  /\ \E i \in CallsIn(fb.log, "postEphemeral") : ~fb.log[i].ok

\* C39: threadStarted calls setSuggestedPrompts once, after the greeting
\* and the saved context both succeeded, with between 1 and 4 prompts, the
\* channel prompt set iff the context has a channel id; when the greeting
\* or the save is rejected no prompts are set and the error is logged.
C39_PromptsOnceAfterGreeting ==
  started.pc = "done" =>
    LET log == started.log
        sets == CallsIn(log, "setSuggestedPrompts")
        greeted == \E i \in CallsIn(log, "say") : log[i].ok
        saved == \E i \in CallsIn(log, "saveThreadContext") : log[i].ok
    IN  /\ IF greeted /\ saved THEN Cardinality(sets) = 1 ELSE sets = {}
        /\ \A k \in sets :
             /\ \E i \in CallsIn(log, "say") :
                  \E j \in CallsIn(log, "saveThreadContext") :
                    i < j /\ j < k /\ log[i].ok /\ log[j].ok
             /\ Len(log[k].arg.prompts) \in 1..4
             /\ (started.context.channel_id \notin {NotDefined, ""})
                  <=> log[k].arg = ChannelPrompts
             /\ (started.context.channel_id \in {NotDefined, ""})
                  <=> log[k].arg = GeneralPrompts
        /\ RejectedIn(log) <=> LoggedLast(log)

\* a thread opened in a channel got the channel prompt set
C39_Witness ==
  /\ started.pc = "done"
  /\ started.context.channel_id = "C7"
  /\ \E k \in CallsIn(started.log, "setSuggestedPrompts") :
       started.log[k].ok /\ started.log[k].arg = ChannelPrompts

\* the message has no text or no thread_ts: the property is absent or empty
NoTextOrThread ==
  \/ message.text \in {Absent, ""}
  \/ message.thread_ts \in {Absent, ""}

\* C38: for a message without text or without thread_ts the message
\* listener sets no status, makes no request to the model, calls nothing
\* on a stream and posts nothing; for any other message the status has
\* been set before the first request to the model is made.
C38_SkippedMessageNoEffect ==
  (pc # "idle" /\ handler = "message") =>
    IF NoTextOrThread
    THEN /\ status = <<>>
         /\ opened = <<>>
         /\ sink = <<>>
         /\ said = <<>>
         /\ logged = <<>>
         /\ thrown = "none"
         /\ pc = "done"
    ELSE opened # <<>> => (status # <<>> /\ status[1].ok)

\* a message with an empty text has been handled
C38_Witness ==
  /\ pc = "done"
  /\ handler = "message"
  /\ message.text = ""
  /\ message.thread_ts # Absent

====
